---- MODULE Spec2Model ----
(***************************************************************************)
(* Research-paper analysis backend: the document analysis pipeline.       *)
(*                                                                         *)
(* Several state machines share this module, one specification each:       *)
(*   Spec              one request to an analysis endpoint,                *)
(*                     analyze_document (routes/simple_analyze.py) or      *)
(*                     analyze_and_save (routes/protected_analyze.py);     *)
(*   SpecFactCheck     one call of fact_check_claims                       *)
(*                     (services/factcheck_service.py);                    *)
(*   SpecCitations     one call of validate                                *)
(*                     (services/citations_service.py) or of               *)
(*                     validate_citations (app.py);                        *)
(*   SpecSummarizer    concurrent calls of _get_summarizer                 *)
(*                     (services/summarizer_service.py);                   *)
(*   SpecCorpus        add_to_corpus against a corpus load                 *)
(*                     (services/plagiarism_service.py);                   *)
(*   SpecExternalCalls the outbound calls of one request;                  *)
(*   SpecPlagiarism    add_to_corpus, then check and check_plagiarism;     *)
(*   SpecMatching      the matching sources of check_plagiarism;           *)
(*   SpecSummarize     one call of summarize;                              *)
(*   SpecParse         _parse_citations, line by line, and the records of  *)
(*                     validate;                                           *)
(*   SpecExtract       one call of extract_claims;                         *)
(*   SpecCritique      one call of critique                                *)
(*                     (services/critique_service.py).                     *)
(* Each specification leaves the variables of the other machines at their  *)
(* idle values.                                                            *)
(***************************************************************************)
EXTENDS Integers, Sequences, FiniteSets, TLC

VARIABLES
    \* ---- one request to an analysis endpoint
    endpoint,            \* "simple" (analyze_document) | "protected" (analyze_and_save)
    pc,                  \* position of the handler
    request,             \* what the client sent: user, upload, the PDF's content
    text,                \* text returned by extract_text_and_meta
    summary,             \* local variable summary
    plagiarism_score,    \* local variable plagiarism_score
    plagiarism_result,   \* local variable plagiarism_result (analyze_and_save)
    citation_results,    \* local variable citation_results
    fact_check_results,  \* local variable fact_check_results
    stagesRun,           \* history: the stage functions invoked, in order
    failed,              \* history: the stages whose call raised
    returned,            \* history: stage -> the value its call returned
    session,             \* db.session: objects added and not yet committed
    db,                  \* committed rows
    dbError,             \* history: a db.session operation raised
    temp_exists,         \* the temporary file at temp_path exists
    response,            \* the HTTP response: status and JSON body
    \* ---- one call of fact_check_claims
    fc_pc, fc_config, fc_claims, fc_i, fc_attempt, fc_mode, fc_results,
    fc_calls,            \* history: external calls made, [claim index, attempt]
    fc_sleeps,           \* history: time.sleep calls, in order
    fc_replies,          \* history: claim index -> the response its call returned
    fc_errors,           \* history: claim index -> the error of its last attempt
    \* ---- one call of validate
    cv_pc, cv_citations, cv_oracle, cv_i, cv_validated,
    cv_lookups,          \* history: the lookups issued, [citation index, query]
    \* ---- one call of validate_citations (app.py)
    vc_pc, vc_citations, vc_i, vc_query, citation_results_legacy,
    vc_lookups,          \* history: the lookups issued, [citation, query, outcome]
    \* ---- concurrent calls of _get_summarizer
    gs_pc, model_cache, pipelines, gs_new, gs_returned,
    \* ---- add_to_corpus running beside a load of the corpus
    corpus, corpus_before, ac_pc, ac_file, ld_pc, txt_files, ld_i, corpus_texts, ld_reads,
    \* ---- the external calls of one analysis request
    xc_pc, xc_program, xc_sites, xc_transport_default, xc_log,
    \* ---- a plagiarism check against the corpus directory
    pl_pc, pl_text, pl_dir, pl_added, similarity_scores, pl_score, pl_result,
    \* ---- summarize: one call of the summarizer
    sm_pc, sm_text, use_hf, use_hf_config, sm_calls, sm_summary,
    \* ---- _parse_citations: the references region, line by line
    pr_pc, pr_lines, pr_i, pr_citations, current_citation, pr_records,
    \* ---- extract_claims: the sentences of a text and the claims kept
    ec_pc, ec_text, ec_tokenizer, ec_claims, ec_returned,
    \* ---- critique: the findings of a text and the suggestions made of them
    cr_pc, cr_text, cr_summary, critique_result

pipeVars == <<endpoint, pc, request, text, summary, plagiarism_score,
              plagiarism_result, citation_results,
              fact_check_results, stagesRun, failed, returned, session, db,
              dbError, temp_exists, response>>
fcVars == <<fc_pc, fc_config, fc_claims, fc_i, fc_attempt, fc_mode, fc_results,
            fc_calls, fc_sleeps, fc_replies, fc_errors>>
cvVars == <<cv_pc, cv_citations, cv_oracle, cv_i, cv_validated, cv_lookups>>
vcVars == <<vc_pc, vc_citations, vc_i, vc_query, citation_results_legacy, vc_lookups>>
gsVars == <<gs_pc, model_cache, pipelines, gs_new, gs_returned>>
corpusVars == <<corpus, corpus_before, ac_pc, ac_file, ld_pc, txt_files, ld_i, corpus_texts, ld_reads>>
xcVars == <<xc_pc, xc_program, xc_sites, xc_transport_default, xc_log>>
plVars == <<pl_pc, pl_text, pl_dir, pl_added, similarity_scores, pl_score, pl_result>>
smVars == <<sm_pc, sm_text, use_hf, use_hf_config, sm_calls, sm_summary>>
prVars == <<pr_pc, pr_lines, pr_i, pr_citations, current_citation, pr_records>>
ecVars == <<ec_pc, ec_text, ec_tokenizer, ec_claims, ec_returned>>
crVars == <<cr_pc, cr_text, cr_summary, critique_result>>
vars == <<pipeVars, fcVars, cvVars, vcVars, gsVars, corpusVars, xcVars, plVars, smVars, prVars, ecVars, crVars>>

\* What an action of one machine leaves alone: the other machines.
nonPipeVars == <<fcVars, cvVars, vcVars, gsVars, corpusVars, xcVars, plVars, smVars, prVars, ecVars, crVars>>
nonFcVars == <<pipeVars, cvVars, vcVars, gsVars, corpusVars, xcVars, plVars, smVars, prVars, ecVars, crVars>>
nonCvVars == <<pipeVars, fcVars, vcVars, gsVars, corpusVars, xcVars, plVars, smVars, prVars, ecVars, crVars>>
nonVcVars == <<pipeVars, fcVars, cvVars, gsVars, corpusVars, xcVars, plVars, smVars, prVars, ecVars, crVars>>
nonGsVars == <<pipeVars, fcVars, cvVars, vcVars, corpusVars, xcVars, plVars, smVars, prVars, ecVars, crVars>>
nonCorpusVars == <<pipeVars, fcVars, cvVars, vcVars, gsVars, xcVars, plVars, smVars, prVars, ecVars, crVars>>
nonXcVars == <<pipeVars, fcVars, cvVars, vcVars, gsVars, corpusVars, plVars, smVars, prVars, ecVars, crVars>>
nonPlVars == <<pipeVars, fcVars, cvVars, vcVars, gsVars, corpusVars, xcVars, smVars, prVars, ecVars, crVars>>
nonSmVars == <<pipeVars, fcVars, cvVars, vcVars, gsVars, corpusVars, xcVars, plVars, prVars, ecVars, crVars>>
nonPrVars == <<pipeVars, fcVars, cvVars, vcVars, gsVars, corpusVars, xcVars, plVars, smVars, ecVars, crVars>>
nonEcVars == <<pipeVars, fcVars, cvVars, vcVars, gsVars, corpusVars, xcVars, plVars, smVars, prVars, crVars>>
nonCrVars == <<pipeVars, fcVars, cvVars, vcVars, gsVars, corpusVars, xcVars, plVars, smVars, prVars, ecVars>>

(***************************************************************************)
(* Bounds of the model.                                                    *)
(***************************************************************************)
MaxItems == 2        \* longest list a pipeline stage returns
MaxClaims == 2       \* most claims in one fact_check_claims batch
MaxCitations == 2    \* most citations in one references section
MaxChunks == 2       \* flushes it takes f.write to put a text on disk
MaxCalls == 2        \* most external calls of one kind in a request
MaxCorpus == 2       \* most files in the corpus directory before add_to_corpus
MaxSources == 11     \* most similarity scores in one comparison
MaxThreads == 3      \* concurrent request threads of one process
MaxFragments == 3    \* most fragments of a summarized text
MaxLines == 5        \* most lines after the header of a references region
MaxSentences == 3    \* most sentences of a short text given to extract_claims

(***************************************************************************)
(* Program constants.                                                      *)
(***************************************************************************)
MIN_TEXT_LEN == 100          \* len(text.strip()) < 100
MAX_RETRIES == 3             \* FACTCHECK_MAX_RETRIES
RETRY_BACKOFF_MS == 500      \* time.sleep(0.5 * attempt)
DELAY_BETWEEN_CALLS == 500   \* FACTCHECK_DELAY, in milliseconds
MAX_QUERY_LEN == 120         \* _clean_query_for_factcheck(claim, max_len=120)
MIN_CITATION_LEN == 10       \* len(citation_text.strip()) < 10
MIN_TITLE_LEN == 5           \* len(title.strip()) < 5
MAX_CITATIONS == 50          \* citations[:50]
TOP_MATCHES == 10            \* matching_sources[:10]
MATCH_THRESHOLD == 1000      \* score > 0.1, in ten-thousandths
SUMMARY_MIN_LEN == 100     \* summarize: len(text.strip()) < 100
HF_MIN_CHUNK == 50         \* _summarize_with_hf skips chunks under 50 characters
SENTENCE_MIN_CHARS == 10   \* _split_into_sentences keeps fragments longer than 10
TARGET_WORDS == 200        \* _summarize_heuristic: target_words
CLAIM_MIN_CHARS == 40      \* extract_claims: len(sentence) > 40
MAX_CLAIMS == 20           \* extract_claims: claims[:20]
MAX_SUGGESTIONS == 8       \* _generate_suggestions: suggestions[:8]

None == "None"
NoBody == [k \in {} |-> None]

SeqsUpTo(S, n) == UNION {[1..k -> S] : k \in 0..n}

(***************************************************************************)
(* Text.  A text is modelled by its leading whitespace, its body (first   *)
(* to last non-blank character) and its trailing whitespace, in           *)
(* characters.  str.strip() removes the first and the last.                *)
(***************************************************************************)
Text(l, b, t) == [lead |-> l, body |-> b, trail |-> t]
Length(t) == t.lead + t.body + t.trail
Strip(t) == Text(0, t.body, 0)
IsEmpty(t) == Length(t) = 0

\* The page texts a PDF may hold.
PageTexts == {Text(l, b, t) : l \in {0, 2}, b \in {0, 99, 100, 250}, t \in {0, 1}}

\* extract_text_and_meta: raises when the PDF cannot be opened, otherwise
\* returns the stripped text of the pages.
extract_text_and_meta(pdf) ==
    IF ~pdf.parsable THEN [raised |-> TRUE, text |-> Text(0, 0, 0)]
    ELSE [raised |-> FALSE, text |-> Strip(pdf.pages)]

\* len(text.split()): the body is made of five-letter words one blank apart.
WordCount(t) == IF t.body = 0 THEN 0 ELSE (t.body + 5) \div 6

\* dict.get(key, default)
Get(d, key, default) == IF key \in DOMAIN d THEN d[key] ELSE default

(***************************************************************************)
(* What the stage services return to the endpoints.  Scores are in        *)
(* thousandths: 437 is 0.437 and 43700 is 43.7.                            *)
(***************************************************************************)
SummaryValues == {"summary A", "summary B"}

\* The maximum cosine similarity of the document against the corpus.
Similarities == {0, 437, 1000}

\* check: round(max_similarity * 100, 1), a percentage.
check(sim) == sim * 100

\* check_plagiarism: the similarity itself and the matches above 0.1.
check_plagiarism(sim) ==
    [plagiarism_score |-> sim,
     matching_sources |-> IF sim > 100 THEN <<[file |-> "corpus_1.txt", score |-> sim]>>
                          ELSE <<>>]

\* The records validate returns.
CitationRecord(n, st) == [raw |-> n, cleaned_title |-> n, status |-> st]
CitationRecords == {CitationRecord("ref", st) : st \in {"Valid", "Not Found"}}
CitationLists == SeqsUpTo(CitationRecords, MaxItems)

\* The records fact_check_claims returns.
FactRecord(st) == [claim |-> "claim", status |-> st, fact_checks |-> <<>>, error |-> None]
FactRecords == {FactRecord(st) : st \in {"verified", "no_verdict"}}
FactLists == SeqsUpTo(FactRecords, MaxItems)

Stages == <<"summarize", "check_plagiarism", "validate_citations", "fact_check">>
StageSet == {Stages[i] : i \in 1..Len(Stages)}

Requests ==
    [user_found : BOOLEAN,
     upload : {"missing", "noname", "notpdf", "pdf"},
     pdf : [parsable : BOOLEAN, pages : PageTexts]]

Response(status, body) == [status |-> status, body |-> body]
NoResponse == Response(0, NoBody)
ErrorBody(msg) == [error |-> msg]

EmptySession == [documents |-> <<>>, analyses |-> <<>>, citations |-> <<>>]
DefaultPlagiarismResult == [plagiarism_score |-> 0, matching_sources |-> <<>>]

PipeInit ==
    /\ endpoint \in {"simple", "protected"}
    /\ request \in Requests
    /\ pc = "start"
    /\ text = Text(0, 0, 0)
    /\ summary = None
    /\ plagiarism_score = 0
    /\ plagiarism_result = DefaultPlagiarismResult
    /\ citation_results = <<>>
    /\ fact_check_results = <<>>
    /\ stagesRun = <<>>
    /\ failed = {}
    /\ returned = NoBody
    /\ session = EmptySession
    /\ db = EmptySession
    /\ dbError = FALSE
    /\ temp_exists = FALSE
    /\ response = NoResponse

PipeIdle ==
    /\ endpoint = "simple"
    /\ request = [user_found |-> FALSE, upload |-> "missing",
                  pdf |-> [parsable |-> FALSE, pages |-> Text(0, 0, 0)]]
    /\ pc = "idle"
    /\ text = Text(0, 0, 0)
    /\ summary = None
    /\ plagiarism_score = 0
    /\ plagiarism_result = DefaultPlagiarismResult
    /\ citation_results = <<>>
    /\ fact_check_results = <<>>
    /\ stagesRun = <<>>
    /\ failed = {}
    /\ returned = NoBody
    /\ session = EmptySession
    /\ db = EmptySession
    /\ dbError = FALSE
    /\ temp_exists = FALSE
    /\ response = NoResponse

stageLocals == <<summary, plagiarism_score, plagiarism_result, citation_results,
                 fact_check_results>>
stageHistory == <<stagesRun, failed, returned>>
dbVars == <<session, db, dbError>>

\* A stage function was invoked; it raised or it returned value.
StageCalled(stage, raised, value) ==
    /\ stagesRun' = Append(stagesRun, stage)
    /\ failed' = IF raised THEN failed \cup {stage} ELSE failed
    /\ returned' = IF raised THEN returned
                   ELSE [s \in DOMAIN returned \cup {stage} |->
                            IF s = stage THEN value ELSE returned[s]]

(***************************************************************************)
(* analyze_document: POST /analyze, no authentication, nothing persisted.  *)
(***************************************************************************)

\* The minimum-viable-text gate: not text or len(text.strip()) < 100.
AD_TooShort_NoLengthCheck(t) == IsEmpty(t)
AD_TooShort(t) == IsEmpty(t) \/ Length(Strip(t)) < MIN_TEXT_LEN

\* Where the handler goes after a stage's try/except: the except clause logs,
\* stores the stage's default and falls through to the next stage.
AD_AfterStage_Reraise(stage, raised) ==
    IF raised THEN "raise"
    ELSE CASE stage = "summarize" -> "plagiarism"
           [] stage = "check_plagiarism" -> "citations"
           [] stage = "validate_citations" -> "factcheck"
           [] stage = "fact_check" -> "respond"
AD_AfterStage(stage, raised) ==
    CASE stage = "summarize" -> "plagiarism"
      [] stage = "check_plagiarism" -> "citations"
      [] stage = "validate_citations" -> "factcheck"
      [] stage = "fact_check" -> "respond"

AD_SummaryOnError == "Unable to generate summary due to processing error."

AD_formatted_citations(results) ==
    [i \in 1..Len(results) |->
        [reference |-> Get(results[i], "raw",
                           Get(results[i], "cleaned_title", "Unknown citation")),
         valid |-> (Get(results[i], "status", None) = "verified")]]

AD_formatted_facts(results) ==
    [i \in 1..Len(results) |->
        [claim |-> Get(results[i], "claim", "Unknown claim"),
         status |-> IF Get(results[i], "status", None) = "verified"
                    THEN "Verified" ELSE "Unverified"]]

\* The JSON body of the 200 response.
AD_ResponseBody(sum, score, cits, facts, words) ==
    [summary |-> sum,
     plagiarism |-> score,
     citations |-> AD_formatted_citations(cits),
     fact_check |-> [facts |-> AD_formatted_facts(facts)],
     stats |-> [word_count |-> words,
                plagiarism_percent |-> score,
                citations_count |-> Len(AD_formatted_citations(cits))]]

\* Request validation and the temporary file.
AD_Receive ==
    /\ endpoint = "simple" /\ pc = "start"
    /\ UNCHANGED nonPipeVars
    /\ IF request.upload = "missing"
       THEN /\ response' = Response(400, ErrorBody("No file provided"))
            /\ pc' = "done" /\ UNCHANGED temp_exists
       ELSE IF request.upload = "noname"
       THEN /\ response' = Response(400, ErrorBody("No file selected"))
            /\ pc' = "done" /\ UNCHANGED temp_exists
       ELSE IF request.upload = "notpdf"
       THEN /\ response' = Response(400, ErrorBody("Only PDF files are allowed"))
            /\ pc' = "done" /\ UNCHANGED temp_exists
       ELSE /\ temp_exists' = TRUE
            /\ pc' = "extract" /\ UNCHANGED response
    /\ UNCHANGED <<endpoint, request, text, stageLocals, stageHistory, dbVars>>

\* Text extraction, the length gate and the stage defaults.
AD_ExtractAndGate ==
    /\ endpoint = "simple" /\ pc = "extract"
    /\ UNCHANGED nonPipeVars
    /\ LET r == extract_text_and_meta(request.pdf) IN
       IF r.raised
       THEN /\ pc' = "raise"
            /\ UNCHANGED <<text, temp_exists, response, stageLocals>>
       ELSE /\ text' = r.text
            /\ IF AD_TooShort(r.text)
               THEN /\ response' = Response(400, ErrorBody("Document text too short for analysis"))
                    /\ temp_exists' = FALSE
                    /\ pc' = "done"
                    /\ UNCHANGED stageLocals
               ELSE /\ summary' = "Analysis failed to generate summary."
                    /\ plagiarism_score' = 0
                    /\ citation_results' = <<>>
                    /\ fact_check_results' = <<>>
                    /\ pc' = "summarize"
                    /\ UNCHANGED <<plagiarism_result, temp_exists, response>>
    /\ UNCHANGED <<endpoint, request, stageHistory, dbVars>>

\* 1. Summarization
AD_Summarization ==
    /\ endpoint = "simple" /\ pc = "summarize"
    /\ UNCHANGED nonPipeVars
    /\ \E raised \in BOOLEAN, value \in SummaryValues :
        /\ StageCalled("summarize", raised, value)
        /\ summary' = IF raised THEN AD_SummaryOnError ELSE value
        /\ pc' = AD_AfterStage("summarize", raised)
    /\ UNCHANGED <<endpoint, request, text, plagiarism_score, plagiarism_result,
                   citation_results, fact_check_results, dbVars, temp_exists, response>>

\* 2. Plagiarism detection
AD_PlagiarismDetection ==
    /\ endpoint = "simple" /\ pc = "plagiarism"
    /\ UNCHANGED nonPipeVars
    /\ \E raised \in BOOLEAN, sim \in Similarities :
        /\ StageCalled("check_plagiarism", raised, check(sim))
        /\ plagiarism_score' = IF raised THEN 0 ELSE check(sim)
        /\ pc' = AD_AfterStage("check_plagiarism", raised)
    /\ UNCHANGED <<endpoint, request, text, summary, plagiarism_result,
                   citation_results, fact_check_results, dbVars, temp_exists, response>>

\* 3. Citation validation
AD_CitationValidation ==
    /\ endpoint = "simple" /\ pc = "citations"
    /\ UNCHANGED nonPipeVars
    /\ \E raised \in BOOLEAN, value \in CitationLists :
        /\ StageCalled("validate_citations", raised, value)
        /\ citation_results' = IF raised THEN <<>> ELSE value
        /\ pc' = AD_AfterStage("validate_citations", raised)
    /\ UNCHANGED <<endpoint, request, text, summary, plagiarism_score, plagiarism_result,
                   fact_check_results, dbVars, temp_exists, response>>

\* 4. Fact checking: extract_claims, then fact_check_claims when there are claims
AD_FactChecking ==
    /\ endpoint = "simple" /\ pc = "factcheck"
    /\ UNCHANGED nonPipeVars
    /\ \E raised \in BOOLEAN, value \in FactLists :
        /\ StageCalled("fact_check", raised, value)
        /\ fact_check_results' = IF raised THEN <<>> ELSE value
        /\ pc' = AD_AfterStage("fact_check", raised)
    /\ UNCHANGED <<endpoint, request, text, summary, plagiarism_score, plagiarism_result,
                   citation_results, dbVars, temp_exists, response>>

\* The response, and the finally clause that removes the temporary file.
AD_Respond ==
    /\ endpoint = "simple" /\ pc = "respond"
    /\ UNCHANGED nonPipeVars
    /\ response' = Response(200, AD_ResponseBody(summary, plagiarism_score, citation_results,
                                                 fact_check_results, WordCount(text)))
    /\ temp_exists' = FALSE
    /\ pc' = "done"
    /\ UNCHANGED <<endpoint, request, text, stageLocals, stageHistory, dbVars>>

\* An exception left the inner try: finally removes the file, the outer except
\* answers 500.
AD_OuterExcept ==
    /\ endpoint = "simple" /\ pc = "raise"
    /\ UNCHANGED nonPipeVars
    /\ temp_exists' = FALSE
    /\ response' = Response(500, ErrorBody("Analysis failed"))
    /\ pc' = "done"
    /\ UNCHANGED <<endpoint, request, text, stageLocals, stageHistory, dbVars>>

(***************************************************************************)
(* analyze_and_save: POST /api/analyze/upload, authenticated, persisted.   *)
(***************************************************************************)

AS_TooShort(t) == IsEmpty(t) \/ Length(Strip(t)) < MIN_TEXT_LEN

AS_AfterStage_Reraise(stage, raised) ==
    IF raised THEN "raise"
    ELSE CASE stage = "summarize" -> "plagiarism"
           [] stage = "check_plagiarism" -> "citations"
           [] stage = "validate_citations" -> "factcheck"
           [] stage = "fact_check" -> "respond"
AS_AfterStage(stage, raised) ==
    CASE stage = "summarize" -> "plagiarism"
      [] stage = "check_plagiarism" -> "citations"
      [] stage = "validate_citations" -> "factcheck"
      [] stage = "fact_check" -> "respond"

AS_SummaryOnError == "Unable to generate summary due to processing error."

\* Document(user_id, filename, stored_path=temp_path, title, extracted_text, word_count)
AS_Document(t) ==
    [id |-> None, stored_path |-> "temp_path", extracted_text |-> t,
     word_count |-> WordCount(t)]

\* The JSON setters of Analysis store None for an empty value.
JsonColumn(value) == IF Len(value) = 0 THEN <<None>> ELSE <<"json", value>>

\* Analysis(document_id, summary, plagiarism_score, plagiarism_details,
\* fact_check_results); critique_json is never assigned.
AS_Analysis(doc, sum, plag, facts) ==
    [id |-> None,
     document_id |-> doc.id,
     summary |-> sum,
     plagiarism_score |-> Get(plag, "plagiarism_score", 0),
     plagiarism_details_json |-> JsonColumn(Get(plag, "matching_sources", <<>>)),
     fact_check_results_json |-> JsonColumn(facts),
     critique_json |-> None]

\* Citation(analysis_id=analysis.id, raw_text, cleaned_title, doi, status)
AS_Citations(analysis, results) ==
    [i \in 1..Len(results) |->
        [analysis_id |-> analysis.id,
         raw_text |-> Get(results[i], "raw", Get(results[i], "reference", "")),
         cleaned_title |-> Get(results[i], "cleaned_title", ""),
         doi |-> Get(results[i], "doi", None),
         status |-> IF Get(results[i], "valid", FALSE) THEN "verified" ELSE "unverified"]]

AS_formatted_citations(results) ==
    [i \in 1..Len(results) |->
        [reference |-> Get(results[i], "raw",
                           Get(results[i], "cleaned_title", "Unknown citation")),
         valid |-> Get(results[i], "valid", FALSE)]]

AS_formatted_facts(results) ==
    [i \in 1..Len(results) |->
        [claim |-> Get(results[i], "claim", "Unknown claim"),
         status |-> IF Get(results[i], "status", None) = "verified"
                    THEN "Verified" ELSE "Unverified"]]

\* The JSON body of the 200 response.
AS_ResponseBody_NoDetails(analysis_id, document_id, sum, plag, cits, facts, words) ==
    [analysis_id |-> analysis_id,
     document_id |-> document_id,
     summary |-> sum,
     plagiarism |-> Get(plag, "plagiarism_score", 0),
     citations |-> AS_formatted_citations(cits),
     fact_check |-> [facts |-> AS_formatted_facts(facts)],
     stats |-> [word_count |-> words,
                plagiarism_percent |-> Get(plag, "plagiarism_score", 0),
                citations_count |-> Len(AS_formatted_citations(cits)),
                fact_checks_count |-> Len(AS_formatted_facts(facts))]]
AS_ResponseBody(analysis_id, document_id, sum, plag, cits, facts, words) ==
    [analysis_id |-> analysis_id,
     document_id |-> document_id,
     summary |-> sum,
     plagiarism |-> Get(plag, "plagiarism_score", 0),
     plagiarism_details |-> Get(plag, "matching_sources", <<>>),
     citations |-> AS_formatted_citations(cits),
     fact_check |-> [facts |-> AS_formatted_facts(facts)],
     stats |-> [word_count |-> words,
                plagiarism_percent |-> Get(plag, "plagiarism_score", 0),
                citations_count |-> Len(AS_formatted_citations(cits)),
                fact_checks_count |-> Len(AS_formatted_facts(facts))]]

\* The user lookup, request validation and the temporary file.
AS_Receive ==
    /\ endpoint = "protected" /\ pc = "start"
    /\ UNCHANGED nonPipeVars
    /\ IF ~request.user_found
       THEN /\ response' = Response(404, ErrorBody("User not found"))
            /\ pc' = "done" /\ UNCHANGED temp_exists
       ELSE IF request.upload = "missing"
       THEN /\ response' = Response(400, ErrorBody("No file provided"))
            /\ pc' = "done" /\ UNCHANGED temp_exists
       ELSE IF request.upload = "noname"
       THEN /\ response' = Response(400, ErrorBody("No file selected"))
            /\ pc' = "done" /\ UNCHANGED temp_exists
       ELSE IF request.upload = "notpdf"
       THEN /\ response' = Response(400, ErrorBody("Only PDF files are allowed"))
            /\ pc' = "done" /\ UNCHANGED temp_exists
       ELSE /\ temp_exists' = TRUE
            /\ pc' = "extract" /\ UNCHANGED response
    /\ UNCHANGED <<endpoint, request, text, stageLocals, stageHistory, dbVars>>

\* Text extraction, the length gate, the document record (add and flush) and
\* the stage defaults.
AS_ExtractAndGate ==
    /\ endpoint = "protected" /\ pc = "extract"
    /\ UNCHANGED nonPipeVars
    /\ LET r == extract_text_and_meta(request.pdf) IN
       IF r.raised
       THEN /\ pc' = "raise"
            /\ UNCHANGED <<text, temp_exists, response, stageLocals, dbVars>>
       ELSE /\ text' = r.text
            /\ IF AS_TooShort(r.text)
               THEN /\ response' = Response(400, ErrorBody("Document text too short for analysis"))
                    /\ temp_exists' = FALSE
                    /\ pc' = "done"
                    /\ UNCHANGED <<stageLocals, dbVars>>
               ELSE \E flushed \in BOOLEAN :
                    /\ IF flushed
                       THEN /\ session' = [session EXCEPT !.documents =
                                              <<[AS_Document(r.text) EXCEPT !.id = 1]>>]
                            /\ summary' = "Analysis failed to generate summary."
                            /\ plagiarism_result' = DefaultPlagiarismResult
                            /\ citation_results' = <<>>
                            /\ fact_check_results' = <<>>
                            /\ pc' = "summarize"
                            /\ UNCHANGED <<dbError, plagiarism_score>>
                       ELSE /\ session' = [session EXCEPT !.documents =
                                              <<AS_Document(r.text)>>]
                            /\ dbError' = TRUE
                            /\ pc' = "raise"
                            /\ UNCHANGED stageLocals
                    /\ UNCHANGED <<db, temp_exists, response>>
    /\ UNCHANGED <<endpoint, request, stageHistory>>

\* 1. Summarization
AS_Summarization ==
    /\ endpoint = "protected" /\ pc = "summarize"
    /\ UNCHANGED nonPipeVars
    /\ \E raised \in BOOLEAN, value \in SummaryValues :
        /\ StageCalled("summarize", raised, value)
        /\ summary' = IF raised THEN AS_SummaryOnError ELSE value
        /\ pc' = AS_AfterStage("summarize", raised)
    /\ UNCHANGED <<endpoint, request, text, plagiarism_score, plagiarism_result,
                   citation_results, fact_check_results, dbVars, temp_exists, response>>

\* 2. Plagiarism detection.  check_plagiarism of plagiarism_service always
\* returns a dict, so the isinstance test takes its first branch.
AS_PlagiarismDetection ==
    /\ endpoint = "protected" /\ pc = "plagiarism"
    /\ UNCHANGED nonPipeVars
    /\ \E raised \in BOOLEAN, sim \in Similarities :
        /\ StageCalled("check_plagiarism", raised, check_plagiarism(sim))
        /\ IF raised
           THEN /\ plagiarism_result' = DefaultPlagiarismResult
                /\ UNCHANGED plagiarism_score
           ELSE /\ plagiarism_result' = check_plagiarism(sim)
                /\ plagiarism_score' = Get(check_plagiarism(sim), "plagiarism_score", 0)
        /\ pc' = AS_AfterStage("check_plagiarism", raised)
    /\ UNCHANGED <<endpoint, request, text, summary,
                   citation_results, fact_check_results, dbVars, temp_exists, response>>

\* 3. Citation validation
AS_CitationValidation ==
    /\ endpoint = "protected" /\ pc = "citations"
    /\ UNCHANGED nonPipeVars
    /\ \E raised \in BOOLEAN, value \in CitationLists :
        /\ StageCalled("validate_citations", raised, value)
        /\ citation_results' = IF raised THEN <<>> ELSE value
        /\ pc' = AS_AfterStage("validate_citations", raised)
    /\ UNCHANGED <<endpoint, request, text, summary, plagiarism_score, plagiarism_result,
                   fact_check_results, dbVars, temp_exists, response>>

\* 4. Fact checking: extract_claims, then fact_check_claims when there are claims
AS_FactChecking ==
    /\ endpoint = "protected" /\ pc = "factcheck"
    /\ UNCHANGED nonPipeVars
    /\ \E raised \in BOOLEAN, value \in FactLists :
        /\ StageCalled("fact_check", raised, value)
        /\ fact_check_results' = IF raised THEN <<>> ELSE value
        /\ pc' = AS_AfterStage("fact_check", raised)
    /\ UNCHANGED <<endpoint, request, text, summary, plagiarism_score, plagiarism_result,
                   citation_results, dbVars, temp_exists, response>>

\* The analysis and citation records, the commit, the response, and the
\* finally clause that removes the temporary file.
AS_PersistAndRespond ==
    /\ endpoint = "protected" /\ pc = "respond"
    /\ UNCHANGED nonPipeVars
    /\ LET document == session.documents[1]
           analysis == AS_Analysis(document, summary, plagiarism_result, fact_check_results)
           citations == AS_Citations(analysis, citation_results)
       IN \E committed \in BOOLEAN :
          IF committed
          THEN /\ db' = [documents |-> <<document>>,
                         analyses |-> <<[analysis EXCEPT !.id = 1]>>,
                         citations |-> citations]
               /\ session' = EmptySession
               /\ response' = Response(200,
                     AS_ResponseBody(1, document.id, summary, plagiarism_result,
                                     citation_results, fact_check_results, WordCount(text)))
               /\ temp_exists' = FALSE
               /\ pc' = "done"
               /\ UNCHANGED dbError
          ELSE /\ session' = [session EXCEPT !.analyses = <<analysis>>,
                                             !.citations = citations]
               /\ dbError' = TRUE
               /\ pc' = "raise"
               /\ UNCHANGED <<db, response, temp_exists>>
    /\ UNCHANGED <<endpoint, request, text, stageLocals, stageHistory>>

\* An exception left the inner try: finally removes the file, the outer except
\* rolls the session back and answers 500.
AS_OuterExcept ==
    /\ endpoint = "protected" /\ pc = "raise"
    /\ UNCHANGED nonPipeVars
    /\ temp_exists' = FALSE
    /\ session' = EmptySession
    /\ response' = Response(500, ErrorBody("Analysis failed"))
    /\ pc' = "done"
    /\ UNCHANGED <<endpoint, request, text, stageLocals, stageHistory, db, dbError>>

PipeNext ==
    \/ AD_Receive
    \/ AD_ExtractAndGate
    \/ AD_Summarization
    \/ AD_PlagiarismDetection
    \/ AD_CitationValidation
    \/ AD_FactChecking
    \/ AD_Respond
    \/ AD_OuterExcept
    \/ AS_Receive
    \/ AS_ExtractAndGate
    \/ AS_Summarization
    \/ AS_PlagiarismDetection
    \/ AS_CitationValidation
    \/ AS_FactChecking
    \/ AS_PersistAndRespond
    \/ AS_OuterExcept

(***************************************************************************)
(* fact_check_claims (services/factcheck_service.py).                      *)
(*                                                                         *)
(* A claim is a sequence of characters.  Times are in milliseconds.        *)
(***************************************************************************)
Whitespace == {" ", "LF", "TAB"}
ControlChars == {"NUL", "ESC"}            \* [\x00-\x1f\x7f-\x9f] other than whitespace
QuoteChars == {"QUOTE", "APOS", "[", "]", "{", "}", "(", ")", "<", ">", "BACKTICK"}
SentenceEnds == {".", "!", "?"}
Separators == {",", ";", ":"}

\* str.split() joined again with single blanks
JoinSplit(s) ==
    LET F[i \in 0..Len(s)] ==
            IF i = 0 THEN <<>>
            ELSE IF s[i] \in Whitespace THEN F[i - 1]
            ELSE IF i > 1 /\ s[i - 1] \in Whitespace /\ F[i - 1] # <<>>
                 THEN F[i - 1] \o <<" ", s[i]>>
                 ELSE Append(F[i - 1], s[i])
    IN F[Len(s)]

\* re.sub of a character class by the empty string
RemoveChars(s, set) == SelectSeq(s, LAMBDA c : c \notin set)

\* re.sub of runs of two or more characters of a class by rep
CollapseRuns(s, set, rep) ==
    LET F[i \in 0..Len(s)] ==
            IF i = 0 THEN <<>>
            ELSE IF s[i] \notin set THEN Append(F[i - 1], s[i])
            ELSE IF i < Len(s) /\ s[i + 1] \in set THEN F[i - 1]
            ELSE IF i > 1 /\ s[i - 1] \in set THEN Append(F[i - 1], rep)
                 ELSE Append(F[i - 1], s[i])
    IN F[Len(s)]

\* str.rfind over a set of characters: the greatest 0-based index, or -1.
RFind(s, set) ==
    LET hits == {i \in 1..Len(s) : s[i] \in set}
    IN IF hits = {} THEN -1 ELSE (CHOOSE i \in hits : \A j \in hits : j <= i) - 1

\* str.strip() of a character sequence
StripChars(s) ==
    LET keep == {i \in 1..Len(s) : s[i] \notin Whitespace}
    IN IF keep = {} THEN <<>>
       ELSE SubSeq(s, CHOOSE i \in keep : \A j \in keep : i <= j,
                      CHOOSE i \in keep : \A j \in keep : j <= i)

\* _clean_query_for_factcheck without the removal of quotes and brackets.
_clean_query_for_factcheck_KeepQuotes(claim, max_len) ==
    IF Len(claim) = 0 \/ StripChars(claim) = <<>> THEN <<>>
    ELSE LET c1 == JoinSplit(claim)
             c2 == RemoveChars(c1, ControlChars \cup {"LF", "TAB"})
             c4 == CollapseRuns(c2, SentenceEnds, ".")
             c5 == CollapseRuns(c4, Separators, ",")
             cleaned == JoinSplit(c5)
         IN IF Len(cleaned) <= max_len THEN cleaned
            ELSE StripChars(SubSeq(cleaned, 1, max_len))

_clean_query_for_factcheck(claim, max_len) ==
    IF Len(claim) = 0 \/ StripChars(claim) = <<>> THEN <<>>
    ELSE LET c1 == JoinSplit(claim)
             c2 == RemoveChars(c1, ControlChars \cup {"LF", "TAB"})
             c3 == RemoveChars(c2, QuoteChars)
             c4 == CollapseRuns(c3, SentenceEnds, ".")
             c5 == CollapseRuns(c4, Separators, ",")
             cleaned == JoinSplit(c5)
             truncated == SubSeq(cleaned, 1, max_len)
             last_sentence_end == RFind(truncated, SentenceEnds)
             last_space == RFind(truncated, {" "})
         IN IF cleaned = <<>> THEN <<>>
            ELSE IF Len(cleaned) <= max_len THEN cleaned
            ELSE IF 10 * last_sentence_end > 6 * max_len
                 THEN StripChars(SubSeq(truncated, 1, last_sentence_end + 1))
            ELSE IF 10 * last_space > 8 * max_len
                 THEN StripChars(SubSeq(truncated, 1, last_space))
                 ELSE StripChars(truncated)

\* The claims of a batch: one that survives cleaning, one that does not.
ClaimTexts == {<<"a", " ", "b", ".", ".">>, <<"QUOTE", " ", "APOS">>}
ClaimBatches == SeqsUpTo(ClaimTexts, MaxClaims)

\* The environment variables read at import.
FactcheckConfigs ==
    [FACTCHECK_USE : {"api_key", "service_account", "disabled"},
     api_key : BOOLEAN,      \* GOOGLE_API_KEY is set
     sa_file : BOOLEAN]      \* GOOGLE_FACTCHECK_SERVICE_ACCOUNT_FILE is set and exists

use_service_account(cfg) == cfg.sa_file /\ cfg.FACTCHECK_USE = "service_account"
use_api_key(cfg) == cfg.api_key /\ cfg.FACTCHECK_USE \in {"api_key", "service_account"}

\* What the Fact Check Tools API answers: claims, each with a claimReview
\* list, each review with a reviewRating.ratingValue.
Review(rating) == [reviewRating |-> [ratingValue |-> rating]]
ApiFactCheck(ratings) ==
    [claimReview |-> [i \in 1..Len(ratings) |-> Review(ratings[i])]]
ApiReplies ==
    {[claims |-> <<>>],
     [claims |-> <<ApiFactCheck(<<"True">>)>>],
     [claims |-> <<ApiFactCheck(<<"False">>)>>],
     [claims |-> <<ApiFactCheck(<<"Unproven">>)>>]}
ApiErrors == {"timeout", "http 500"}

\* The ratings _determine_fact_check_status collects from the reviews.
RECURSIVE Flatten(_)
Flatten(ss) == IF ss = <<>> THEN <<>> ELSE Head(ss) \o Flatten(Tail(ss))
ReviewRatings(fact_checks) ==
    Flatten([i \in 1..Len(fact_checks) |->
        LET reviews == Get(fact_checks[i], "claimReview", <<>>)
        IN [j \in 1..Len(reviews) |->
               Get(Get(reviews[j], "reviewRating", NoBody), "ratingValue", None)]])

_determine_fact_check_status(fact_checks) ==
    IF fact_checks = <<>> THEN "no_verdict"
    ELSE IF SelectSeq(ReviewRatings(fact_checks), LAMBDA r : r # None) = <<>>
         THEN "no_verdict"
         ELSE "no_verdict"

FcResult_CleanedClaim(claim, status, fact_checks, error) ==
    [claim |-> _clean_query_for_factcheck(claim, MAX_QUERY_LEN), status |-> status,
     fact_checks |-> fact_checks, error |-> error]
FcResult(claim, status, fact_checks, error) ==
    [claim |-> claim, status |-> status, fact_checks |-> fact_checks, error |-> error]

\* The result of a claim when FACTCHECK_USE is disabled.
DisabledResult_ApiError(claim) ==
    FcResult(claim, "api_error", <<>>, "Fact-checking is disabled via FACTCHECK_USE=disabled")
DisabledResult(claim) ==
    FcResult(claim, "not_configured", <<>>,
             "Fact-checking is disabled via FACTCHECK_USE=disabled")

\* _generate_mock_fact_check_results: a verdict and zero to two mock entries,
\* drawn at random for each claim.
mock_verdicts ==
    {[status |-> "verified", rating |-> "True"],
     [status |-> "contradicted", rating |-> "False"],
     [status |-> "no_verdict", rating |-> "Unproven"],
     [status |-> "verified", rating |-> "Mostly True"],
     [status |-> "contradicted", rating |-> "Mostly False"]}
MockDraws == [verdict : mock_verdicts, num_checks : {0, 1, 2}]
MockResult(claim, draw) ==
    FcResult(claim, draw.verdict.status,
             [i \in 1..draw.num_checks |->
                 [text |-> claim, claimReview |-> <<Review(draw.verdict.rating)>>]],
             None)

\* The retry loops of _call_google_factcheck_rest and
\* _call_google_factcheck_service_account.
ShouldRetry_OneMore(attempt) == attempt <= MAX_RETRIES
ShouldRetry(attempt) == attempt < MAX_RETRIES
Backoff_Fixed(attempt) == RETRY_BACKOFF_MS
Backoff(attempt) == RETRY_BACKOFF_MS * attempt

Sleep(kind, ms, i, attempt) == [kind |-> kind, ms |-> ms, claim |-> i, attempt |-> attempt]
Extend(f, k, v) == [x \in DOMAIN f \cup {k} |-> IF x = k THEN v ELSE f[x]]

\* Lines 294-295: the delay taken at the head of the loop for claim i.
DelayBefore_EveryClaim(i) == <<Sleep("between", DELAY_BETWEEN_CALLS, i, 0)>>
DelayBefore(i) ==
    IF i > 1 THEN <<Sleep("between", DELAY_BETWEEN_CALLS, i, 0)>> ELSE <<>>

FCInit ==
    /\ fc_pc = "start"
    /\ fc_config \in FactcheckConfigs
    /\ fc_claims \in ClaimBatches
    /\ fc_i = 0
    /\ fc_attempt = 0
    /\ fc_mode = None
    /\ fc_results = <<>>
    /\ fc_calls = <<>>
    /\ fc_sleeps = <<>>
    /\ fc_replies = NoBody
    /\ fc_errors = NoBody

fcLoop == <<fc_i, fc_attempt>>
fcHistory == <<fc_calls, fc_sleeps, fc_replies, fc_errors>>

\* `if not claims: return results`
FC_NoClaims ==
    /\ fc_pc = "start" /\ fc_claims = <<>>
    /\ fc_pc' = "done"
    /\ UNCHANGED <<fc_config, fc_claims, fcLoop, fc_mode, fc_results, fcHistory>>
    /\ UNCHANGED nonFcVars

\* FACTCHECK_USE is disabled: every claim is marked not_configured.
FC_Disabled ==
    /\ fc_pc = "start" /\ fc_claims # <<>>
    /\ fc_config.FACTCHECK_USE = "disabled"
    /\ fc_results' = [i \in 1..Len(fc_claims) |-> DisabledResult(fc_claims[i])]
    /\ fc_pc' = "done"
    /\ UNCHANGED <<fc_config, fc_claims, fcLoop, fc_mode, fcHistory>>
    /\ UNCHANGED nonFcVars

\* Neither authentication method is available: mock data.
FC_Mock ==
    /\ fc_pc = "start" /\ fc_claims # <<>>
    /\ fc_config.FACTCHECK_USE # "disabled"
    /\ ~use_service_account(fc_config) /\ ~use_api_key(fc_config)
    /\ \E draws \in [1..Len(fc_claims) -> MockDraws] :
          fc_results' = [i \in 1..Len(fc_claims) |-> MockResult(fc_claims[i], draws[i])]
    /\ fc_pc' = "done"
    /\ UNCHANGED <<fc_config, fc_claims, fcLoop, fc_mode, fcHistory>>
    /\ UNCHANGED nonFcVars

\* The authentication method: the service-account client when it can be built,
\* else the API key, else api_error for every claim.
FC_ChooseMode ==
    /\ fc_pc = "start" /\ fc_claims # <<>>
    /\ fc_config.FACTCHECK_USE # "disabled"
    /\ use_service_account(fc_config) \/ use_api_key(fc_config)
    /\ IF use_service_account(fc_config)
       THEN \E built \in BOOLEAN :
              IF built
              THEN /\ fc_mode' = "service_account"
                   /\ fc_i' = 1 /\ fc_pc' = "claim"
                   /\ UNCHANGED fc_results
              ELSE IF ~use_api_key(fc_config)
              THEN /\ fc_results' = [i \in 1..Len(fc_claims) |->
                          FcResult(fc_claims[i], "api_error", <<>>,
                                   "Service account initialization error")]
                   /\ fc_pc' = "done"
                   /\ UNCHANGED <<fc_mode, fc_i>>
              ELSE /\ fc_mode' = "api_key"
                   /\ fc_i' = 1 /\ fc_pc' = "claim"
                   /\ UNCHANGED fc_results
       ELSE /\ fc_mode' = "api_key"
            /\ fc_i' = 1 /\ fc_pc' = "claim"
            /\ UNCHANGED fc_results
    /\ UNCHANGED <<fc_config, fc_claims, fc_attempt, fcHistory>>
    /\ UNCHANGED nonFcVars

\* The head of the loop over the claims: the delay between claims, the
\* cleaning test, and the entry into the call function.
FC_NextClaim ==
    /\ fc_pc = "claim"
    /\ UNCHANGED nonFcVars
    /\ IF fc_i > Len(fc_claims)
       THEN /\ fc_pc' = "done"
            /\ UNCHANGED <<fcLoop, fc_results, fcHistory>>
       ELSE LET slept == fc_sleeps \o DelayBefore(fc_i)
                cleaned_claim == _clean_query_for_factcheck(fc_claims[fc_i], MAX_QUERY_LEN)
            IN /\ fc_sleeps' = slept
               /\ IF cleaned_claim = <<>>
                  THEN /\ fc_results' = Append(fc_results,
                            FcResult(fc_claims[fc_i], "not_configured", <<>>,
                                "Claim could not be processed (too short or invalid after cleaning)"))
                       /\ fc_i' = fc_i + 1
                       /\ UNCHANGED <<fc_pc, fc_attempt, fc_errors>>
                  ELSE IF fc_mode = "api_key" /\ ~fc_config.api_key
                  THEN \* _call_google_factcheck_rest: GOOGLE_API_KEY not configured
                       /\ fc_results' = Append(fc_results,
                            FcResult(fc_claims[fc_i], "api_error", <<>>,
                                     "GOOGLE_API_KEY not configured"))
                       /\ fc_errors' = Extend(fc_errors, fc_i, "GOOGLE_API_KEY not configured")
                       /\ fc_i' = fc_i + 1
                       /\ UNCHANGED <<fc_pc, fc_attempt>>
                  ELSE /\ fc_attempt' = 1
                       /\ fc_pc' = "call"
                       /\ UNCHANGED <<fc_i, fc_results, fc_errors>>
               /\ UNCHANGED <<fc_calls, fc_replies>>
    /\ UNCHANGED <<fc_config, fc_claims, fc_mode>>

\* One pass of `for attempt in range(1, MAX_RETRIES + 1)`: the request, then
\* the response, or the backoff sleep, or the re-raise that fact_check_claims
\* turns into api_error.
FC_Attempt ==
    /\ fc_pc = "call"
    /\ UNCHANGED nonFcVars
    /\ fc_calls' = Append(fc_calls, [claim |-> fc_i, attempt |-> fc_attempt, mode |-> fc_mode])
    /\ \/ \E reply \in ApiReplies :
            /\ fc_replies' = Extend(fc_replies, fc_i, reply)
            /\ fc_results' = Append(fc_results,
                  FcResult(fc_claims[fc_i],
                           _determine_fact_check_status(Get(reply, "claims", <<>>)),
                           Get(reply, "claims", <<>>), None))
            /\ fc_i' = fc_i + 1
            /\ fc_attempt' = 0
            /\ fc_pc' = "claim"
            /\ UNCHANGED <<fc_sleeps, fc_errors>>
       \/ \E e \in ApiErrors :
            IF ShouldRetry(fc_attempt)
            THEN /\ fc_sleeps' = Append(fc_sleeps,
                                        Sleep("backoff", Backoff(fc_attempt), fc_i, fc_attempt))
                 /\ fc_attempt' = fc_attempt + 1
                 /\ UNCHANGED <<fc_i, fc_pc, fc_results, fc_replies, fc_errors>>
            ELSE /\ fc_errors' = Extend(fc_errors, fc_i, e)
                 /\ fc_results' = Append(fc_results,
                                         FcResult(fc_claims[fc_i], "api_error", <<>>, e))
                 /\ fc_i' = fc_i + 1
                 /\ fc_attempt' = 0
                 /\ fc_pc' = "claim"
                 /\ UNCHANGED <<fc_sleeps, fc_replies>>
    /\ UNCHANGED <<fc_config, fc_claims, fc_mode>>

FCNext ==
    \/ FC_NoClaims
    \/ FC_Disabled
    \/ FC_Mock
    \/ FC_ChooseMode
    \/ FC_NextClaim
    \/ FC_Attempt

(***************************************************************************)
(* validate (services/citations_service.py): the loop over the citations   *)
(* that _parse_citations extracted from the references section.            *)
(*                                                                         *)
(* A citation is modelled by the lengths that decide its path: marker, the *)
(* leading numbering with the blanks after it (0 when there is none);      *)
(* rest, what follows the marker; title, the length of the text found by   *)
(* the quoted-title, after-the-period or first-words rule (0 when none     *)
(* finds a text of 6 to 159 characters).                                   *)
(***************************************************************************)
Min(a, b) == IF a <= b THEN a ELSE b

Citation(id, m, r, t) == [id |-> id, marker |-> m, rest |-> r, title |-> t]
CitationLength(c) == c.marker + c.rest

\* An ordinary entry; an entry under 10 characters; an entry of 10 characters
\* that is nearly all numbering, such as (2020) abc.
CitationKinds == {<<3, 40, 17>>, <<3, 4, 0>>, <<7, 3, 0>>}
CitationBatches ==
    UNION {{[i \in 1..n |-> Citation(i, k[i][1], k[i][2], k[i][3])] :
               k \in [1..n -> CitationKinds]} : n \in 0..MaxCitations}

\* What the lookup service does with a query.
LookupOutcomes == {"match", "no_match", "timeout", "request_error", "other_error"}

\* _clean_citation_title, as the length of the title it returns.
_clean_citation_title(c) ==
    IF 5 < c.title /\ c.title < 160 THEN c.title
    ELSE IF Min(c.rest, 100) > 5 THEN Min(c.rest, 100)
    ELSE Min(c.rest, 50)

\* _validate_citation_with_api: no request for a title under 5 characters;
\* Timeout is caught before RequestException, and both before Exception.
_validate_citation_with_api_TimeoutAsError(title, outcome) ==
    IF title = 0 \/ title < MIN_TITLE_LEN THEN [status |-> "Error", queried |-> FALSE]
    ELSE [queried |-> TRUE,
          status |-> CASE outcome = "match" -> "Valid"
                       [] outcome = "no_match" -> "Not Found"
                       [] outcome = "timeout" -> "Error"
                       [] outcome = "request_error" -> "Error"
                       [] outcome = "other_error" -> "Error"]
_validate_citation_with_api(title, outcome) ==
    IF title = 0 \/ title < MIN_TITLE_LEN THEN [status |-> "Error", queried |-> FALSE]
    ELSE [queried |-> TRUE,
          status |-> CASE outcome = "match" -> "Valid"
                       [] outcome = "no_match" -> "Not Found"
                       [] outcome = "timeout" -> "API Timeout"
                       [] outcome = "request_error" -> "Error"
                       [] outcome = "other_error" -> "Error"]

CVInit ==
    /\ cv_pc = "start"
    /\ cv_citations \in CitationBatches
    /\ cv_oracle \in [1..Len(cv_citations) -> LookupOutcomes]
    /\ cv_i = 0
    /\ cv_validated = <<>>
    /\ cv_lookups = <<>>

\* The citations validate iterates over: citations[:50].
CV_Begin ==
    /\ cv_pc = "start"
    /\ cv_citations' = SubSeq(cv_citations, 1, Min(Len(cv_citations), MAX_CITATIONS))
    /\ cv_i' = 1
    /\ cv_pc' = "loop"
    /\ UNCHANGED <<cv_oracle, cv_validated, cv_lookups>>
    /\ UNCHANGED nonCvVars

\* `if len(citation_text.strip()) < 10: continue`
CV_SkipShort ==
    /\ cv_pc = "loop" /\ cv_i <= Len(cv_citations)
    /\ CitationLength(cv_citations[cv_i]) < MIN_CITATION_LEN
    /\ cv_i' = cv_i + 1
    /\ UNCHANGED <<cv_pc, cv_citations, cv_oracle, cv_validated, cv_lookups>>
    /\ UNCHANGED nonCvVars

\* The title, its validation and the record.
CV_ValidateOne ==
    /\ cv_pc = "loop" /\ cv_i <= Len(cv_citations)
    /\ CitationLength(cv_citations[cv_i]) >= MIN_CITATION_LEN
    /\ LET citation_text == cv_citations[cv_i]
           cleaned_title == _clean_citation_title(citation_text)
           r == _validate_citation_with_api(cleaned_title, cv_oracle[citation_text.id])
       IN /\ cv_lookups' = IF r.queried
                           THEN Append(cv_lookups, [citation |-> citation_text.id,
                                                    query |-> "cleaned_title",
                                                    length |-> cleaned_title])
                           ELSE cv_lookups
          /\ cv_validated' = Append(cv_validated,
                                    [raw |-> citation_text,
                                     cleaned_title |-> cleaned_title,
                                     status |-> r.status])
    /\ cv_i' = cv_i + 1
    /\ UNCHANGED <<cv_pc, cv_citations, cv_oracle>>
    /\ UNCHANGED nonCvVars

\* `return validated_citations`
CV_Return ==
    /\ cv_pc = "loop" /\ cv_i > Len(cv_citations)
    /\ cv_pc' = "done"
    /\ UNCHANGED <<cv_citations, cv_oracle, cv_i, cv_validated, cv_lookups>>
    /\ UNCHANGED nonCvVars

CVNext ==
    \/ CV_Begin
    \/ CV_SkipShort
    \/ CV_ValidateOne
    \/ CV_Return

(***************************************************************************)
(* validate_citations (app.py): the query cascade of the single-file       *)
(* application.  The citations are the distinct lines extract_citations    *)
(* returned; citation_results is keyed by the citation.                    *)
(***************************************************************************)
LegacyQueries_TitleFirst == <<"cleaned_title", "raw", "keywords">>
LegacyQueries == <<"raw", "cleaned_title", "keywords">>
LegacyOutcomes == {"match", "no_match", "timeout", "error"}
MatchedTitle == "title of the first match"

VCInit ==
    /\ vc_pc = "loop"
    /\ vc_citations \in {[i \in 1..n |-> i] : n \in 0..MaxCitations}
    /\ vc_i = 1
    /\ vc_query = 1
    /\ citation_results_legacy = NoBody
    /\ vc_lookups = <<>>

VCIdle ==
    /\ vc_pc = "idle"
    /\ vc_citations = <<>>
    /\ vc_i = 0
    /\ vc_query = 0
    /\ citation_results_legacy = NoBody
    /\ vc_lookups = <<>>

\* One requests.get of the cascade and what follows it: the result and the
\* `continue` on a match, the next query or Not Found without one, the except
\* clauses on a failure.
VC_Lookup ==
    /\ vc_pc = "loop" /\ vc_i <= Len(vc_citations)
    /\ \E outcome \in LegacyOutcomes :
          /\ vc_lookups' = Append(vc_lookups, [citation |-> vc_citations[vc_i],
                                               query |-> LegacyQueries[vc_query],
                                               outcome |-> outcome])
          /\ IF outcome = "no_match" /\ vc_query < Len(LegacyQueries)
             THEN /\ vc_query' = vc_query + 1
                  /\ UNCHANGED <<vc_i, citation_results_legacy>>
             ELSE /\ citation_results_legacy' =
                        [x \in DOMAIN citation_results_legacy \cup {vc_citations[vc_i]} |->
                            IF x # vc_citations[vc_i] THEN citation_results_legacy[x]
                            ELSE CASE outcome = "match" -> MatchedTitle
                                   [] outcome = "no_match" -> "Not Found"
                                   [] outcome = "timeout" -> "API Timeout"
                                   [] outcome = "error" -> "API Error"]
                  /\ vc_i' = vc_i + 1
                  /\ vc_query' = 1
    /\ UNCHANGED <<vc_pc, vc_citations>>
    /\ UNCHANGED nonVcVars

\* `return citation_results`
VC_Return ==
    /\ vc_pc = "loop" /\ vc_i > Len(vc_citations)
    /\ vc_pc' = "done"
    /\ UNCHANGED <<vc_citations, vc_i, vc_query, citation_results_legacy, vc_lookups>>
    /\ UNCHANGED nonVcVars

VCNext ==
    \/ VC_Lookup
    \/ VC_Return

(***************************************************************************)
(* _get_summarizer (services/summarizer_service.py) called by concurrent   *)
(* requests of one process.  Each request thread calls it once; the        *)
(* construction of the pipeline takes seconds, so the threads interleave   *)
(* between the test of the cache, the construction and the store.          *)
(***************************************************************************)
Threads == 1..MaxThreads

GSInit ==
    /\ gs_pc = [t \in Threads |-> "idle"]
    /\ model_cache = NoBody
    /\ pipelines = 0
    /\ gs_new = [t \in Threads |-> 0]
    /\ gs_returned = [t \in Threads |-> 0]

GSIdle ==
    /\ gs_pc = <<>>
    /\ model_cache = NoBody
    /\ pipelines = 0
    /\ gs_new = <<>>
    /\ gs_returned = <<>>

\* A request reaches _summarize_with_hf and calls _get_summarizer.
GS_Call(t) ==
    /\ gs_pc[t] = "idle"
    /\ gs_pc' = [gs_pc EXCEPT ![t] = "test"]
    /\ UNCHANGED <<model_cache, pipelines, gs_new, gs_returned>>
    /\ UNCHANGED nonGsVars

\* `if 'summarizer' not in _model_cache:`
GS_Test(t) ==
    /\ gs_pc[t] = "test"
    /\ gs_pc' = [gs_pc EXCEPT ![t] = IF "summarizer" \notin DOMAIN model_cache
                                      THEN "construct" ELSE "return"]
    /\ UNCHANGED <<model_cache, pipelines, gs_new, gs_returned>>
    /\ UNCHANGED nonGsVars

\* `pipeline("summarization", ...)`: a new pipeline object, or an exception
\* that _get_summarizer re-raises.
GS_Construct(t) ==
    /\ gs_pc[t] = "construct"
    /\ \E raised \in BOOLEAN :
          IF raised
          THEN /\ gs_pc' = [gs_pc EXCEPT ![t] = "raised"]
               /\ UNCHANGED <<pipelines, gs_new>>
          ELSE /\ pipelines' = pipelines + 1
               /\ gs_new' = [gs_new EXCEPT ![t] = pipelines + 1]
               /\ gs_pc' = [gs_pc EXCEPT ![t] = "store"]
    /\ UNCHANGED <<model_cache, gs_returned>>
    /\ UNCHANGED nonGsVars

\* `_model_cache['summarizer'] = ...`
GS_Store(t) ==
    /\ gs_pc[t] = "store"
    /\ model_cache' = [k \in {"summarizer"} |-> gs_new[t]]
    /\ gs_pc' = [gs_pc EXCEPT ![t] = "return"]
    /\ UNCHANGED <<pipelines, gs_new, gs_returned>>
    /\ UNCHANGED nonGsVars

\* `return _model_cache['summarizer']`
GS_Return(t) ==
    /\ gs_pc[t] = "return"
    /\ gs_returned' = [gs_returned EXCEPT ![t] = model_cache["summarizer"]]
    /\ gs_pc' = [gs_pc EXCEPT ![t] = "done"]
    /\ UNCHANGED <<model_cache, pipelines, gs_new>>
    /\ UNCHANGED nonGsVars

GSNext ==
    \/ \E t \in Threads : GS_Call(t)
    \/ \E t \in Threads : GS_Test(t)
    \/ \E t \in Threads : GS_Construct(t)
    \/ \E t \in Threads : GS_Store(t)
    \/ \E t \in Threads : GS_Return(t)

(***************************************************************************)
(* The corpus directory (services/plagiarism_service.py): add_to_corpus    *)
(* writing one file while _load_corpus or _load_corpus_with_filenames      *)
(* reads the directory.  A file is what is on disk under a name: the       *)
(* document it comes from and the number of its characters written so far. *)
(* The text reaches the disk in MaxChunks flushes of ChunkChars characters.*)
(***************************************************************************)
ChunkChars == 125
CorpusNames == <<"a.txt", "b.txt", "c.txt">>
FileContent(doc, chars) == [doc |-> doc, chars |-> chars]
NewText == FileContent("new", ChunkChars * MaxChunks)
OldText(f) == FileContent(CorpusNames[f], 2 * ChunkChars)

\* The directory before the call: a.txt and b.txt, each present or not.
CorpusInit ==
    /\ \E present \in SUBSET {1, 2} : corpus = [f \in present |-> OldText(f)]
    /\ corpus_before = corpus
    /\ ac_pc = "open"
    /\ ac_file \in {1, 3}      \* safe_filename: an existing name or a new one
    /\ ld_pc = "glob"
    /\ txt_files = <<>>
    /\ ld_i = 0
    /\ corpus_texts = <<>>
    /\ ld_reads = <<>>

CorpusIdle ==
    /\ corpus = NoBody
    /\ corpus_before = NoBody
    /\ ac_pc = "idle"
    /\ ac_file = 0
    /\ ld_pc = "idle"
    /\ txt_files = <<>>
    /\ ld_i = 0
    /\ corpus_texts = <<>>
    /\ ld_reads = <<>>

acVars == <<ac_pc, ac_file>>
ldVars == <<ld_pc, txt_files, ld_i, corpus_texts, ld_reads>>

\* `open(file_path, 'w')`: the file is created or truncated; or the open
\* raises and add_to_corpus returns False.
AC_Open ==
    /\ ac_pc = "open"
    /\ \E raised \in BOOLEAN :
          IF raised
          THEN /\ ac_pc' = "returned False"
               /\ UNCHANGED corpus
          ELSE /\ ac_pc' = "write"
               /\ corpus' = [f \in DOMAIN corpus \cup {ac_file} |->
                                IF f = ac_file THEN FileContent("new", 0) ELSE corpus[f]]
    /\ UNCHANGED <<corpus_before, ac_file, ldVars>>
    /\ UNCHANGED nonCorpusVars

\* `f.write(text)` and the close: one flush of the buffer to the file.
AC_Flush ==
    /\ ac_pc = "write"
    /\ corpus[ac_file].chars < NewText.chars
    /\ corpus' = [corpus EXCEPT ![ac_file].chars = @ + ChunkChars]
    /\ UNCHANGED <<corpus_before, acVars, ldVars>>
    /\ UNCHANGED nonCorpusVars

\* `return True`
AC_Return ==
    /\ ac_pc = "write"
    /\ corpus[ac_file].chars = NewText.chars
    /\ ac_pc' = "returned True"
    /\ UNCHANGED <<corpus, corpus_before, ac_file, ldVars>>
    /\ UNCHANGED nonCorpusVars

\* The names in a set of files, in increasing order.
RECURSIVE Sorted(_)
Sorted(S) ==
    IF S = {} THEN <<>>
    ELSE LET m == CHOOSE x \in S : \A y \in S : x <= y
         IN <<m>> \o Sorted(S \ {m})

\* `txt_files = glob.glob(pattern, recursive=True)`
LD_Glob ==
    /\ ld_pc = "glob"
    /\ txt_files' = Sorted(DOMAIN corpus)
    /\ ld_i' = 1
    /\ ld_pc' = "read"
    /\ UNCHANGED <<corpus, corpus_before, acVars, corpus_texts, ld_reads>>
    /\ UNCHANGED nonCorpusVars

\* One pass of `for file_path in txt_files`: the file is read as it is at
\* that moment and kept when it has more than 100 characters.
LD_Read ==
    /\ ld_pc = "read" /\ ld_i <= Len(txt_files)
    /\ LET file_path == txt_files[ld_i]
           content == corpus[file_path]
       IN /\ ld_reads' = Append(ld_reads, [file |-> file_path, content |-> content])
          /\ corpus_texts' = IF content.chars > 100
                             THEN Append(corpus_texts, [file |-> file_path, content |-> content])
                             ELSE corpus_texts
    /\ ld_i' = ld_i + 1
    /\ UNCHANGED <<corpus, corpus_before, acVars, ld_pc, txt_files>>
    /\ UNCHANGED nonCorpusVars

\* `return corpus_texts`
LD_Return ==
    /\ ld_pc = "read" /\ ld_i > Len(txt_files)
    /\ ld_pc' = "done"
    /\ UNCHANGED <<corpus, corpus_before, acVars, txt_files, ld_i, corpus_texts, ld_reads>>
    /\ UNCHANGED nonCorpusVars

CorpusNext ==
    \/ AC_Open
    \/ AC_Flush
    \/ AC_Return
    \/ LD_Glob
    \/ LD_Read
    \/ LD_Return

(***************************************************************************)
(* The external network calls of one analysis request, in the order the    *)
(* request makes them, each with the timeout its call site passes.         *)
(* A service may answer, fail, or never answer.                            *)
(***************************************************************************)
\* The timeout argument of each call site, in milliseconds: a set, empty
\* where the call passes none.
ExplicitTimeout ==
    [crossref |-> {10000},                 \* citations_service.py:59, timeout=10
     semantic_scholar |-> {10000},         \* citations_service.py:277, timeout=10
     factcheck_rest |-> {8000},            \* factcheck_service.py:169, FACTCHECK_TIMEOUT
     factcheck_service_account |-> {},   \* factcheck_service.py:199, request.execute()
     legacy_validate |-> {5000},           \* app.py:82, 88, 95, timeout=5
     paper_search |-> {}]                \* app.py:40, requests.get(search_url)

\* requests.get without a timeout waits without limit; the client built by
\* googleapiclient waits as long as its transport, which the source does not
\* configure.
EffectiveTimeout(site, transport_default) ==
    IF ExplicitTimeout[site] # {} THEN ExplicitTimeout[site]
    ELSE IF site = "factcheck_service_account" THEN transport_default
    ELSE {}

Repeat(x, n) == [i \in 1..n |-> x]

\* The calls of a request to the analysis endpoints, and of a request to
\* /analyze of app.py.
CallPrograms ==
    {[program |-> "pipeline",
      sites |-> Repeat("semantic_scholar", n) \o Repeat(fc, m)] :
         n \in 0..MaxCalls, m \in 0..MaxCalls,
         fc \in {"factcheck_rest", "factcheck_service_account"}}
    \cup
    {[program |-> "app.py",
      sites |-> <<"paper_search">> \o Repeat("legacy_validate", n)] : n \in 0..MaxCalls}

XCInit ==
    /\ xc_pc = "next"
    /\ \E p \in CallPrograms : xc_program = p.program /\ xc_sites = p.sites
    /\ xc_transport_default \in {{}, {60000}}
    /\ xc_log = <<>>

XCIdle ==
    /\ xc_pc = "idle"
    /\ xc_program = None
    /\ xc_sites = <<>>
    /\ xc_transport_default = {}
    /\ xc_log = <<>>

\* The request is sent.
XC_Issue ==
    /\ xc_pc = "next" /\ xc_sites # <<>>
    /\ xc_pc' = "waiting"
    /\ UNCHANGED <<xc_program, xc_sites, xc_transport_default, xc_log>>
    /\ UNCHANGED nonXcVars

\* The service answers or the connection fails.
XC_Answer ==
    /\ xc_pc = "waiting"
    /\ \E outcome \in {"response", "error"} :
          xc_log' = Append(xc_log, [site |-> Head(xc_sites), outcome |-> outcome])
    /\ xc_sites' = Tail(xc_sites)
    /\ xc_pc' = "next"
    /\ UNCHANGED <<xc_program, xc_transport_default>>
    /\ UNCHANGED nonXcVars

\* The timeout of the call elapses.
XC_Expire ==
    /\ xc_pc = "waiting"
    /\ EffectiveTimeout(Head(xc_sites), xc_transport_default) # {}
    /\ xc_log' = Append(xc_log, [site |-> Head(xc_sites), outcome |-> "timeout"])
    /\ xc_sites' = Tail(xc_sites)
    /\ xc_pc' = "next"
    /\ UNCHANGED <<xc_program, xc_transport_default>>
    /\ UNCHANGED nonXcVars

\* No call is left: the handler returns its response.
XC_Respond ==
    /\ xc_pc = "next" /\ xc_sites = <<>>
    /\ xc_pc' = "responded"
    /\ UNCHANGED <<xc_program, xc_sites, xc_transport_default, xc_log>>
    /\ UNCHANGED nonXcVars

XCNext ==
    \/ XC_Issue
    \/ XC_Answer
    \/ XC_Expire
    \/ XC_Respond

(***************************************************************************)
(* check and check_plagiarism (services/plagiarism_service.py) against the *)
(* corpus directory, after an optional add_to_corpus.                      *)
(*                                                                         *)
(* A text is its length, its length once stripped, and the set of the      *)
(* features (words and word pairs that are not stop words) the vectorizer  *)
(* finds in it, each occurring once.  Cosine similarities are in           *)
(* ten-thousandths, rounded scores in thousandths.                         *)
(***************************************************************************)
PlText(chars, stripped, terms) == [chars |-> chars, stripped |-> stripped, terms |-> terms]
TextA == PlText(250, 250, {"t1", "t2"})
TextB == PlText(250, 250, {"t3"})
TextAB == PlText(250, 250, {"t1", "t3"})
TextC == PlText(250, 250, {"t4"})
TextPadded == PlText(120, 90, {"t1"})         \* over 100 characters, 90 once stripped
TextStopWords == PlText(250, 250, {})         \* nothing but stop words
CheckedTexts == {TextA, TextAB, TextC, TextPadded, TextStopWords}
CorpusTexts == {TextA, TextB, TextAB}

FileName(stem, ext) == [stem |-> stem, ext |-> ext]
CorpusFile(i) == FileName(<<"corpus", i>>, ".txt")
\* `filename.replace(' ', '_').replace('.pdf', '.txt')`
safe_filename(filename) ==
    IF filename.ext = ".pdf" THEN FileName(filename.stem, ".txt") ELSE filename

\* The file written by add_to_corpus, in a directory listed in a fixed order.
WriteFile(dir, name, content) ==
    IF \E k \in 1..Len(dir) : dir[k].file = name
    THEN [k \in 1..Len(dir) |-> IF dir[k].file = name
                                THEN [file |-> name, content |-> content] ELSE dir[k]]
    ELSE Append(dir, [file |-> name, content |-> content])

\* _load_corpus_with_filenames: the *.txt files whose stripped content has
\* more than 100 characters.
_load_corpus_with_filenames(dir) ==
    SelectSeq(dir, LAMBDA e : e.file.ext = ".txt" /\ e.content.stripped > 100)

\* (ln((1 + n) / (1 + df)) + 1) ^ 2 in hundredths: the square of the smoothed
\* idf weight TfidfVectorizer gives a feature found in df of n documents.
Idf2 ==
    <<<<100>>,
      <<198, 100>>,
      <<287, 166, 100>>,
      <<367, 228, 150, 100>>,
      <<440, 287, 198, 140, 100>>,
      <<507, 341, 243, 179, 133, 100>>,
      <<569, 392, 287, 216, 166, 128, 100>>>>

RECURSIVE SumOver(_, _)
SumOver(S, w) ==
    IF S = {} THEN 0
    ELSE LET x == CHOOSE y \in S : TRUE IN w[x] + SumOver(S \ {x}, w)

\* The integer square root, by bisection.
RECURSIVE ISqrtIn(_, _, _)
ISqrtIn(lo, hi, x) ==
    IF lo >= hi THEN lo
    ELSE LET mid == (lo + hi + 1) \div 2
         IN IF mid * mid <= x THEN ISqrtIn(mid, hi, x) ELSE ISqrtIn(lo, mid - 1, x)

\* vectorizer.fit_transform(documents) and cosine_similarity of the first
\* document with the others.  max_df=0.9 drops the features found in more
\* than nine tenths of the documents; fit_transform raises ValueError when no
\* feature is left.
TfidfSimilarities(documents) ==
    LET n == Len(documents)
        vocabulary == UNION {documents[i].terms : i \in 1..n}
        df == [t \in vocabulary |-> Cardinality({i \in 1..n : t \in documents[i].terms})]
        kept == {t \in vocabulary : 10 * df[t] <= 9 * n}
        w2 == [t \in kept |-> Idf2[n][df[t]]]
        norm2(d) == SumOver(d.terms \cap kept, w2)
        dot(a, b) == SumOver(a.terms \cap b.terms \cap kept, w2)
        cosine(a, b) ==
            IF norm2(a) = 0 \/ norm2(b) = 0 THEN 0
            ELSE ISqrtIn(0, 10000, ((dot(a, b) * 10000) \div norm2(a))
                                    * ((dot(a, b) * 10000) \div norm2(b)))
    IN IF kept = {}
       THEN [raised |-> TRUE, scores |-> <<>>]
       ELSE [raised |-> FALSE,
             scores |-> [i \in 1..(n - 1) |-> cosine(documents[1], documents[i + 1])]]

\* round(x, 3) of a similarity, in thousandths.
Round3(s) == (s + 5) \div 10

Max(S) == CHOOSE x \in S : \A y \in S : y <= x

\* list.sort(key=score, reverse=True): a stable sort by decreasing score.
RECURSIVE SortByScore(_)
SortByScore(seq) ==
    IF seq = <<>> THEN <<>>
    ELSE LET top == Max({seq[k].score : k \in 1..Len(seq)})
             first == CHOOSE k \in 1..Len(seq) :
                         /\ seq[k].score = top
                         /\ \A j \in 1..(k - 1) : seq[j].score # top
         IN <<seq[first]>> \o
            SortByScore(SubSeq(seq, 1, first - 1) \o SubSeq(seq, first + 1, Len(seq)))

\* Lines 47-66 of check_plagiarism: the matches above 0.1, sorted, the first
\* ten of them, and the rounded maximum.
MatchingResult_Unsorted(scores, corpus_files) ==
    LET matching_sources ==
            SelectSeq([i \in 1..Len(scores) |->
                          [file |-> corpus_files[i], score |-> Round3(scores[i]),
                           similarity |-> scores[i]]],
                      LAMBDA m : m.similarity > MATCH_THRESHOLD)
    IN [plagiarism_score |-> IF scores = <<>> THEN 0
                             ELSE Round3(Max({scores[i] : i \in 1..Len(scores)})),
        matching_sources |->
            LET top == SubSeq(matching_sources, 1, Min(Len(matching_sources), TOP_MATCHES))
            IN [k \in 1..Len(top) |-> [file |-> top[k].file, score |-> top[k].score]]]
MatchingResult(scores, corpus_files) ==
    LET matching_sources ==
            SelectSeq([i \in 1..Len(scores) |->
                          [file |-> corpus_files[i], score |-> Round3(scores[i]),
                           similarity |-> scores[i]]],
                      LAMBDA m : m.similarity > MATCH_THRESHOLD)
        sorted == SortByScore(matching_sources)
    IN [plagiarism_score |-> IF scores = <<>> THEN 0
                             ELSE Round3(Max({scores[i] : i \in 1..Len(scores)})),
        matching_sources |->
            LET top == SubSeq(sorted, 1, Min(Len(sorted), TOP_MATCHES))
            IN [k \in 1..Len(top) |-> [file |-> top[k].file, score |-> top[k].score]]]

\* The whole of check: the gate, the corpus, the similarities, the percentage.
check_text(doc, dir) ==
    LET loaded == _load_corpus_with_filenames(dir)
        r == TfidfSimilarities(<<doc>> \o [i \in 1..Len(loaded) |-> loaded[i].content])
    IN IF doc.chars = 0 \/ doc.stripped < 100 THEN 0
       ELSE IF loaded = <<>> THEN 0
       ELSE IF r.raised THEN 0
       ELSE check(Round3(Max({r.scores[i] : i \in 1..Len(r.scores)})))

\* The similarity scores check_plagiarism computes, when it computes them.
check_plagiarism_scores(doc, dir) ==
    LET loaded == _load_corpus_with_filenames(dir)
        r == TfidfSimilarities(<<doc>> \o [i \in 1..Len(loaded) |-> loaded[i].content])
    IN IF doc.chars = 0 \/ doc.stripped < 100 THEN <<>>
       ELSE IF loaded = <<>> THEN <<>>
       ELSE r.scores

\* The whole of check_plagiarism.
check_plagiarism_text(doc, dir) ==
    LET loaded == _load_corpus_with_filenames(dir)
    IN MatchingResult(check_plagiarism_scores(doc, dir),
                      [i \in 1..Len(loaded) |-> loaded[i].file])

\* The names add_to_corpus is called with: a new PDF name, the name of the
\* first corpus file, a name without an extension.
AddNames == {FileName(<<"new", 0>>, ".pdf"), FileName(<<"corpus", 1>>, ".pdf"),
             FileName(<<"notes", 0>>, "")}

PLInit ==
    /\ pl_pc = "start"
    /\ pl_text \in CheckedTexts
    /\ \E n \in 0..MaxCorpus : \E texts \in [1..n -> CorpusTexts] :
          pl_dir = [i \in 1..n |-> [file |-> CorpusFile(i), content |-> texts[i]]]
    /\ pl_added = NoBody
    /\ similarity_scores = <<>>
    /\ pl_score = 0
    /\ pl_result = DefaultPlagiarismResult

PLIdle ==
    /\ pl_pc = "idle"
    /\ pl_text = PlText(0, 0, {})
    /\ pl_dir = <<>>
    /\ pl_added = NoBody
    /\ similarity_scores = <<>>
    /\ pl_score = 0
    /\ pl_result = DefaultPlagiarismResult

\* add_to_corpus(text, filename): the text is written under the safe file
\* name and True is returned, or an exception is caught and False is returned.
PL_AddToCorpus ==
    /\ pl_pc = "start"
    /\ \E filename \in AddNames, raised \in BOOLEAN :
          /\ pl_added' = [filename |-> filename, returned |-> ~raised]
          /\ pl_dir' = IF raised THEN pl_dir
                       ELSE WriteFile(pl_dir, safe_filename(filename), pl_text)
    /\ pl_pc' = "check"
    /\ UNCHANGED <<pl_text, similarity_scores, pl_score, pl_result>>
    /\ UNCHANGED nonPlVars

\* The document is checked against the corpus as it is.
PL_NoAdd ==
    /\ pl_pc = "start"
    /\ pl_pc' = "check"
    /\ UNCHANGED <<pl_text, pl_dir, pl_added, similarity_scores, pl_score, pl_result>>
    /\ UNCHANGED nonPlVars

PL_Check ==
    /\ pl_pc = "check"
    /\ pl_score' = check_text(pl_text, pl_dir)
    /\ pl_pc' = "check_plagiarism"
    /\ UNCHANGED <<pl_text, pl_dir, pl_added, similarity_scores, pl_result>>
    /\ UNCHANGED nonPlVars

PL_CheckPlagiarism ==
    /\ pl_pc = "check_plagiarism"
    /\ similarity_scores' = check_plagiarism_scores(pl_text, pl_dir)
    /\ pl_result' = check_plagiarism_text(pl_text, pl_dir)
    /\ pl_pc' = "done"
    /\ UNCHANGED <<pl_text, pl_dir, pl_added, pl_score>>
    /\ UNCHANGED nonPlVars

PLNext ==
    \/ PL_AddToCorpus
    \/ PL_NoAdd
    \/ PL_Check
    \/ PL_CheckPlagiarism

\* The similarity scores cosine_similarity can hand to the rest of
\* check_plagiarism: two scores with different roundings and, for one corpus
\* entry at most, exactly 0.1 or a score between the two that rounds like the
\* lower one.
SimilarityValues == {5001, 5006}
OddSimilarityValues == {MATCH_THRESHOLD, 5004}

\* check_plagiarism from the similarity scores on: the corpus has one file
\* for each score.
MatchingInit ==
    /\ pl_pc = "scores"
    /\ pl_text = TextAB
    /\ \E n \in 0..MaxSources :
          /\ pl_dir = [i \in 1..n |-> [file |-> CorpusFile(i), content |-> TextA]]
          /\ \E base \in [1..n -> SimilarityValues], odd \in 0..n,
                   s \in OddSimilarityValues :
                similarity_scores = [i \in 1..n |-> IF i = odd THEN s ELSE base[i]]
    /\ pl_added = NoBody
    /\ pl_score = 0
    /\ pl_result = DefaultPlagiarismResult

PL_Matching ==
    /\ pl_pc = "scores"
    /\ pl_result' = MatchingResult(similarity_scores,
                                   [i \in 1..Len(pl_dir) |-> pl_dir[i].file])
    /\ pl_pc' = "done"
    /\ UNCHANGED <<pl_text, pl_dir, pl_added, similarity_scores, pl_score>>
    /\ UNCHANGED nonPlVars

(***************************************************************************)
(* summarize, _summarize_with_hf, _summarize_heuristic and                  *)
(* _split_into_sentences (summarizer_service.py).  A text is a single      *)
(* paragraph: fragments free of . ! and ?, each followed by a run of such  *)
(* characters (none after the last fragment of a text that ends without    *)
(* one), one space between a run and the next fragment, and pad characters *)
(* of whitespace around the whole.  A fragment is known by its length in   *)
(* characters, its number of words and the number of important keywords    *)
(* it contains.                                                            *)
(***************************************************************************)
Fragment(chars, words, keywords) ==
    [chars |-> chars, words |-> words, keywords |-> keywords]
EdgeFragment == Fragment(10, 3, 0)        \* exactly 10 characters
FewWordsFragment == Fragment(11, 2, 0)    \* over 10 characters, under 5 words
PlainSentence == Fragment(60, 12, 0)
KeywordSentence == Fragment(90, 16, 2)
LongSentence == Fragment(1300, 250, 1)    \* more words than the 200-word target
Fragments == {EdgeFragment, FewWordsFragment, PlainSentence, KeywordSentence, LongSentence}
PunctuationRuns == {1, 95}
Paddings == {0, 20}

SummarizedTexts ==
    UNION {{[pad |-> pad, parts |-> parts] :
               pad \in Paddings,
               parts \in {q \in [1..n -> [sentence : Fragments, sep : PunctuationRuns \cup {0}]] :
                             \A i \in 1..(n - 1) : q[i].sep # 0}} :
           n \in 0..MaxFragments}

\* len(text) and len(text.strip()).
RECURSIVE StrippedLength(_)
StrippedLength(parts) ==
    IF parts = <<>> THEN 0
    ELSE Head(parts).sentence.chars + Head(parts).sep
         + (IF Len(parts) > 1 THEN 1 ELSE 0) + StrippedLength(Tail(parts))
TextLength(t) ==
    IF t.parts = <<>> THEN t.pad ELSE t.pad + StrippedLength(t.parts)

\* What summarize returns: who wrote it, and its sentences.
Summary(by, sentences) == [by |-> by, sentences |-> sentences]
NoSummary == Summary("nobody", <<>>)
TooShortMessage == Summary("gate", <<Fragment(44, 6, 0)>>)
RECURSIVE JoinLength(_)
JoinLength(sentences) ==
    IF sentences = <<>> THEN 0
    ELSE Head(sentences).chars + (IF Len(sentences) > 1 THEN 1 ELSE 0)
         + JoinLength(Tail(sentences))

\* re.split on runs of . ! ?, each fragment stripped, kept when longer than 10.
_split_into_sentences(t) ==
    SelectSeq([i \in 1..Len(t.parts) |-> t.parts[i].sentence],
              LAMBDA sentence : sentence.chars > SENTENCE_MIN_CHARS)

\* The score of the k-th sentence: length, keywords, position of its first
\* occurrence (sentences.index, counted from 0).
SentenceScore(sentences, k) ==
    LET sentence == sentences[k]
        word_count == sentence.words
        sentence_index ==
            (CHOOSE i \in 1..Len(sentences) :
                /\ sentences[i] = sentence
                /\ \A j \in 1..(i - 1) : sentences[j] # sentence) - 1
    IN (IF 15 <= word_count /\ word_count <= 30 THEN 2
        ELSE IF 10 <= word_count /\ word_count <= 40 THEN 1 ELSE 0)
       + sentence.keywords
       + (IF 5 * sentence_index < Len(sentences) THEN 1
          ELSE IF 5 * sentence_index > 4 * Len(sentences) THEN 1 ELSE 0)

\* First loop of the selection: by score, within the 200-word target.
RECURSIVE SelectWithinTarget(_, _, _, _)
SelectWithinTarget(sentence_scores, i, selected_sentences, total_words) ==
    IF i > Len(sentence_scores) THEN selected_sentences
    ELSE LET sentence == sentence_scores[i].sentence
             fits == total_words + sentence.words <= TARGET_WORDS
             selected == IF fits THEN Append(selected_sentences, sentence)
                         ELSE selected_sentences
             total == IF fits THEN total_words + sentence.words ELSE total_words
         IN IF Len(selected) >= 7 \/ 10 * total >= 9 * TARGET_WORDS THEN selected
            ELSE SelectWithinTarget(sentence_scores, i + 1, selected, total)

\* Second loop: with fewer than 3 selected, add scored sentences up to 5.
RECURSIVE AddMoreSentences(_, _, _)
AddMoreSentences(sentence_scores, i, selected_sentences) ==
    IF i > Len(sentence_scores) THEN selected_sentences
    ELSE LET sentence == sentence_scores[i].sentence
         IN IF \E k \in 1..Len(selected_sentences) : selected_sentences[k] = sentence
            THEN AddMoreSentences(sentence_scores, i + 1, selected_sentences)
            ELSE LET selected == Append(selected_sentences, sentence)
                 IN IF Len(selected) >= 5 THEN selected
                    ELSE AddMoreSentences(sentence_scores, i + 1, selected)

_summarize_heuristic(t) ==
    LET sentences == _split_into_sentences(t)
        scored == SelectSeq([k \in 1..Len(sentences) |->
                                [sentence |-> sentences[k],
                                 score |-> SentenceScore(sentences, k)]],
                            LAMBDA e : e.sentence.words >= 5)
        sentence_scores == SortByScore(scored)
        first == SelectWithinTarget(sentence_scores, 1, <<>>, 0)
        selected_sentences == IF Len(first) < 3
                              THEN AddMoreSentences(sentence_scores, 1, first)
                              ELSE first
        ordered_summary ==
            SelectSeq(sentences,
                      LAMBDA sentence : \E k \in 1..Len(selected_sentences) :
                                            selected_sentences[k] = sentence)
    IN Summary("heuristic",
               IF ordered_summary = <<>>
               THEN SubSeq(sentences, 1, Min(3, Len(sentences)))
               ELSE ordered_summary)

\* What the model pipeline gives for the one chunk of a single-paragraph
\* text: a summary of at least min_length tokens, or an exception (from
\* loading the model or from running it).
HfOutcomes == {"summary", "load_fails", "chunk_fails"}
HfSummary == Summary("hf", <<Fragment(300, 50, 0)>>)

SMIdle ==
    /\ sm_pc = "idle"
    /\ sm_text = [pad |-> 0, parts |-> <<>>]
    /\ use_hf = TRUE
    /\ use_hf_config = TRUE
    /\ sm_calls = <<>>
    /\ sm_summary = NoSummary

SMInit ==
    /\ sm_pc = "called"
    /\ sm_text \in SummarizedTexts
    /\ use_hf \in BOOLEAN
    /\ use_hf_config \in BOOLEAN
    /\ sm_calls = <<>>
    /\ sm_summary = NoSummary

\* summarize, lines 39-40: the gate.
SM_TooShort ==
    /\ sm_pc = "called"
    /\ TextLength(sm_text) = 0 \/ StrippedLength(sm_text.parts) < SUMMARY_MIN_LEN
    /\ sm_summary' = TooShortMessage
    /\ sm_pc' = "done"
    /\ UNCHANGED <<sm_text, use_hf, use_hf_config, sm_calls>>
    /\ UNCHANGED nonSmVars

\* summarize, lines 43-52: the choice of the strategy.
SM_Choose ==
    /\ sm_pc = "called"
    /\ ~(TextLength(sm_text) = 0 \/ StrippedLength(sm_text.parts) < SUMMARY_MIN_LEN)
    /\ IF use_hf /\ use_hf_config
       THEN sm_pc' = "hf" /\ sm_calls' = Append(sm_calls, "_summarize_with_hf")
       ELSE sm_pc' = "heuristic" /\ sm_calls' = Append(sm_calls, "_summarize_heuristic")
    /\ UNCHANGED <<sm_text, use_hf, use_hf_config, sm_summary>>
    /\ UNCHANGED nonSmVars

\* _summarize_with_hf returns the summary of its chunk.
SM_HfReturns ==
    /\ sm_pc = "hf"
    /\ StrippedLength(sm_text.parts) >= HF_MIN_CHUNK
    /\ sm_summary' = HfSummary
    /\ sm_pc' = "done"
    /\ UNCHANGED <<sm_text, use_hf, use_hf_config, sm_calls>>
    /\ UNCHANGED nonSmVars

\* _summarize_with_hf raises (no model, or no chunk summarized); summarize
\* catches the exception and calls the heuristic.
SM_HfRaises ==
    /\ sm_pc = "hf"
    /\ \E outcome \in HfOutcomes \ {"summary"} : TRUE
    /\ sm_pc' = "heuristic"
    /\ sm_calls' = Append(sm_calls, "_summarize_heuristic")
    /\ UNCHANGED <<sm_text, use_hf, use_hf_config, sm_summary>>
    /\ UNCHANGED nonSmVars

SM_Heuristic ==
    /\ sm_pc = "heuristic"
    /\ sm_summary' = _summarize_heuristic(sm_text)
    /\ sm_pc' = "done"
    /\ UNCHANGED <<sm_text, use_hf, use_hf_config, sm_calls>>
    /\ UNCHANGED nonSmVars

SMNext == SM_TooShort \/ SM_Choose \/ SM_HfReturns \/ SM_HfRaises \/ SM_Heuristic

(***************************************************************************)
(* _parse_citations and _is_new_citation_start (citations_service.py), and *)
(* the records validate makes of the parsed citations.  The references     *)
(* region is a sequence of lines, the header line first; a line is known   *)
(* by how it begins and by its length after strip, and a citation by the   *)
(* numbers of the lines joined in it.                                      *)
(***************************************************************************)
Line(head, chars) == [head |-> head, chars |-> chars]
HeaderLine == Line("References", 10)
BlankLine == Line("", 0)
NumberedHeads == {"N.", "[N]", "(N)"}
StartHeads == NumberedHeads \cup {"Author, A"}
BodyLines ==
    {BlankLine, Line("N.", 4), Line("[N]", 30), Line("(N)", 30),
     Line("Author, A", 30), Line("other", 12)}

\* The four patterns of _is_new_citation_start.
_is_new_citation_start(line) == line.head \in StartHeads

\* Regions of any shape up to MaxLines body lines, and long regions of
\* numbered one-line entries, with or without the blank lines, around the
\* limit of 50.
ShortRegions ==
    UNION {{<<HeaderLine>> \o body : body \in [1..n -> BodyLines]} : n \in 0..MaxLines}
RECURSIVE Flat(_)
Flat(seqs) == IF seqs = <<>> THEN <<>> ELSE Head(seqs) \o Flat(Tail(seqs))
LongRegions ==
    {<<HeaderLine>> \o Flat(Repeat(entry, n)) :
        entry \in {<<Line("[N]", 30), BlankLine>>, <<Line("[N]", 30)>>,
                   <<Line("N.", 4), Line("other", 12), BlankLine>>},
        n \in (MAX_CITATIONS - 1)..(MAX_CITATIONS + 1)}
ReferenceRegions == ShortRegions \cup LongRegions

\* len of the citation: its lines joined by single spaces.
RECURSIVE CitationChars(_, _)
CitationChars(lines, citation) ==
    IF citation = <<>> THEN 0
    ELSE lines[Head(citation)].chars + (IF Len(citation) > 1 THEN 1 ELSE 0)
         + CitationChars(lines, Tail(citation))

\* One turn of the loop of _parse_citations on line i (lines 139-155).
ParseLine_BlankIgnored(lines, i, citations, current) ==
    IF lines[i] = BlankLine
    THEN [citations |-> citations, current |-> current]
    ELSE IF _is_new_citation_start(lines[i])
    THEN [citations |-> IF current # <<>> THEN Append(citations, current) ELSE citations,
          current |-> <<i>>]
    ELSE [citations |-> citations, current |-> Append(current, i)]
ParseLine(lines, i, citations, current) ==
    IF lines[i] = BlankLine
    THEN IF current # <<>>
         THEN [citations |-> Append(citations, current), current |-> <<>>]
         ELSE [citations |-> citations, current |-> current]
    ELSE IF _is_new_citation_start(lines[i])
    THEN [citations |-> IF current # <<>> THEN Append(citations, current) ELSE citations,
          current |-> <<i>>]
    ELSE [citations |-> citations, current |-> Append(current, i)]

\* validate, lines 102-113: the first 50 citations, those under 10
\* characters skipped; the raw field of each record.
ValidatedRaw_Unsliced(lines, citations) ==
    SelectSeq(citations, LAMBDA c : CitationChars(lines, c) >= MIN_CITATION_LEN)
ValidatedRaw(lines, citations) ==
    SelectSeq(SubSeq(citations, 1, Min(Len(citations), MAX_CITATIONS)),
              LAMBDA c : CitationChars(lines, c) >= MIN_CITATION_LEN)

PRIdle ==
    /\ pr_pc = "idle"
    /\ pr_lines = <<>>
    /\ pr_i = 0
    /\ pr_citations = <<>>
    /\ current_citation = <<>>
    /\ pr_records = <<>>

\* lines = references_text.split, and the loop starts after the header.
PRInit ==
    /\ pr_pc = "loop"
    /\ pr_lines \in ReferenceRegions
    /\ pr_i = 2
    /\ pr_citations = <<>>
    /\ current_citation = <<>>
    /\ pr_records = <<>>

prTurn ==
    /\ LET r == ParseLine(pr_lines, pr_i, pr_citations, current_citation)
       IN /\ pr_citations' = r.citations
          /\ current_citation' = r.current
          /\ pr_pc' = IF Len(r.citations) >= MAX_CITATIONS THEN "after_loop" ELSE "loop"
    /\ pr_i' = pr_i + 1
    /\ UNCHANGED <<pr_lines, pr_records>>
    /\ UNCHANGED nonPrVars

\* Lines 141-145: an empty line.
PR_BlankLine ==
    /\ pr_pc = "loop"
    /\ pr_i <= Len(pr_lines)
    /\ pr_lines[pr_i] = BlankLine
    /\ prTurn

\* Lines 148-152: a line that starts a citation.
PR_StartLine ==
    /\ pr_pc = "loop"
    /\ pr_i <= Len(pr_lines)
    /\ pr_lines[pr_i] # BlankLine /\ _is_new_citation_start(pr_lines[pr_i])
    /\ prTurn

\* Lines 153-155: any other line.
PR_ContinuationLine ==
    /\ pr_pc = "loop"
    /\ pr_i <= Len(pr_lines)
    /\ pr_lines[pr_i] # BlankLine /\ ~_is_new_citation_start(pr_lines[pr_i])
    /\ prTurn

\* The lines are exhausted.
PR_EndOfLines ==
    /\ pr_pc = "loop"
    /\ pr_i > Len(pr_lines)
    /\ pr_pc' = "after_loop"
    /\ UNCHANGED <<pr_lines, pr_i, pr_citations, current_citation, pr_records>>
    /\ UNCHANGED nonPrVars

\* Lines 162-165 of _parse_citations, then the loop of validate.
PR_Return ==
    /\ pr_pc = "after_loop"
    /\ LET citations == IF current_citation # <<>>
                        THEN Append(pr_citations, current_citation)
                        ELSE pr_citations
       IN /\ pr_citations' = citations
          /\ pr_records' = ValidatedRaw(pr_lines, citations)
    /\ pr_pc' = "done"
    /\ UNCHANGED <<pr_lines, pr_i, current_citation>>
    /\ UNCHANGED nonPrVars

PRNext == PR_BlankLine \/ PR_StartLine \/ PR_ContinuationLine \/ PR_EndOfLines \/ PR_Return

(***************************************************************************)
(* extract_claims and _is_likely_non_claim (factcheck_service.py).  A text *)
(* is the sequence of sentences nltk.sent_tokenize makes of it; a sentence *)
(* is known by its stripped length, its number of words, how it begins,    *)
(* whether it ends with a question mark, whether it holds both square      *)
(* brackets and whether it is written in capitals.  A claim is the number  *)
(* of its sentence.                                                        *)
(***************************************************************************)
Sentence(chars, words, start, question, brackets, capitals) ==
    [chars |-> chars, words |-> words, start |-> start, question |-> question,
     brackets |-> brackets, capitals |-> capitals]
Declarative(chars, words) == Sentence(chars, words, "other", FALSE, FALSE, FALSE)
SkippedStarts ==
    {"figure", "table", "see", "cf.", "e.g.", "i.e.",
     "references", "bibliography", "acknowledgments"}
SentenceKinds ==
    {Declarative(35, 7), Declarative(40, 8), Declarative(41, 8), Declarative(60, 10),
     Declarative(45, 4),
     Sentence(60, 10, "other", TRUE, FALSE, FALSE),
     Sentence(20, 5, "other", TRUE, FALSE, FALSE),
     Sentence(60, 10, "other", FALSE, FALSE, TRUE),
     Sentence(60, 10, "other", FALSE, TRUE, FALSE),
     Sentence(60, 10, "figure", FALSE, FALSE, FALSE),
     Sentence(60, 10, "references", FALSE, FALSE, FALSE)}

\* Texts of up to MaxSentences sentences of any kind, and texts of about
\* MAX_CLAIMS sentences, all kept or every second one a question.
ShortTexts == UNION {[1..n -> SentenceKinds] : n \in 0..MaxSentences}
LongTexts ==
    {Flat(Repeat(unit, n)) :
        unit \in {<<Declarative(60, 10)>>,
                  <<Sentence(60, 10, "other", TRUE, FALSE, FALSE), Declarative(60, 10)>>},
        n \in (MAX_CLAIMS - 1)..(MAX_CLAIMS + 2)}
ExtractedTexts == ShortTexts \cup LongTexts

\* The five skip patterns.
_is_likely_non_claim(sentence) ==
    \/ sentence.start \in {"figure", "table", "see", "cf.", "e.g.", "i.e."}
    \/ sentence.question
    \/ sentence.brackets
    \/ sentence.start \in {"references", "bibliography", "acknowledgments"}
    \/ sentence.words < 5

\* Lines 103-107: the sentences kept, by number, in the order of the text.
CandidateClaims(sentences) ==
    SelectSeq([i \in 1..Len(sentences) |-> i],
              LAMBDA i : sentences[i].chars > CLAIM_MIN_CHARS
                         /\ ~_is_likely_non_claim(sentences[i]))

\* Line 110: claims[:20].
FirstClaims_Last(claims) ==
    SubSeq(claims, Len(claims) - Min(Len(claims), MAX_CLAIMS) + 1, Len(claims))
FirstClaims(claims) == SubSeq(claims, 1, Min(Len(claims), MAX_CLAIMS))

ECIdle ==
    /\ ec_pc = "idle"
    /\ ec_text = <<>>
    /\ ec_tokenizer = "ok"
    /\ ec_claims = <<>>
    /\ ec_returned = <<>>

\* The tokenizer returns the sentences, or raises (its data is missing).
ECInit ==
    /\ ec_pc = "called"
    /\ ec_text \in ExtractedTexts
    /\ ec_tokenizer \in {"ok", "raises"}
    /\ ec_claims = <<>>
    /\ ec_returned = <<>>

\* Lines 94-95: not text.
EC_NoText ==
    /\ ec_pc = "called"
    /\ ec_text = <<>>
    /\ ec_returned' = <<>>
    /\ ec_pc' = "done"
    /\ UNCHANGED <<ec_text, ec_tokenizer, ec_claims>>
    /\ UNCHANGED nonEcVars

\* Lines 97-110.
EC_Extract ==
    /\ ec_pc = "called"
    /\ ec_text # <<>>
    /\ ec_tokenizer = "ok"
    /\ ec_claims' = CandidateClaims(ec_text)
    /\ ec_returned' = FirstClaims(CandidateClaims(ec_text))
    /\ ec_pc' = "done"
    /\ UNCHANGED <<ec_text, ec_tokenizer>>
    /\ UNCHANGED nonEcVars

\* Lines 112-114: the exception is logged and the empty list returned.
EC_TokenizerRaises ==
    /\ ec_pc = "called"
    /\ ec_text # <<>>
    /\ ec_tokenizer = "raises"
    /\ ec_returned' = <<>>
    /\ ec_pc' = "failed"
    /\ UNCHANGED <<ec_text, ec_tokenizer, ec_claims>>
    /\ UNCHANGED nonEcVars

ECNext == EC_NoText \/ EC_Extract \/ EC_TokenizerRaises

(***************************************************************************)
(* critique, _analyze_methodology, _analyze_writing_quality,               *)
(* _analyze_limitations and _generate_suggestions (critique_service.py).   *)
(* A text is known by what the scans find in it; a message is the sequence *)
(* of its words, a computed number standing as the word N.                 *)
(***************************************************************************)
CritiquedTexts ==
    [methodology_terms : BOOLEAN,                \* found_terms is not empty
     sample_size : {"none", "small", "stated"},  \* sample_sizes: empty, max < 30, else
     stats_terms : BOOLEAN,                      \* found_stats is not empty
     avg_length : {"long", "short", "medium"},   \* > 25, < 10, between
     passive : BOOLEAN,                          \* passive_ratio > 0.3
     hedging : BOOLEAN,                          \* hedge_count above 2% of the words
     jargon : BOOLEAN,                           \* jargon_count > 10
     limitations : BOOLEAN,                      \* found_limitations is not empty
     generalizability : BOOLEAN,
     data : BOOLEAN,
     ethics : BOOLEAN,
     novelty : BOOLEAN,                          \* novelty_count >= 3
     future_work : BOOLEAN]                      \* future work or future research
CritiqueSummaries == {"summary A", "summary B"}

\* needle in message, for strings cut at word boundaries.
ContainsWords(message, needle) ==
    \E i \in 1..(Len(message) - Len(needle) + 1) :
        SubSeq(message, i, i + Len(needle) - 1) = needle
\* item in list.
InList(list, item) == \E k \in 1..Len(list) : list[k] = item
AnyContains(list, needle) == \E k \in 1..Len(list) : ContainsWords(list[k], needle)

_analyze_methodology(t) ==
    <<IF t.methodology_terms
      THEN <<"Methodology", "terms", "found:", "N">>
      ELSE <<"Limited", "methodology", "terminology", "detected">>>>
    \o (IF t.sample_size = "none" THEN <<<<"No", "explicit", "sample", "size", "found">>>>
        ELSE IF t.sample_size = "small"
        THEN <<<<"Small", "sample", "size", "detected", "(n=N)">>>>
        ELSE <<<<"Sample", "size", "mentioned", "(n=N)">>>>)
    \o <<IF t.stats_terms
         THEN <<"Statistical", "analysis:", "N">>
         ELSE <<"Limited", "statistical", "analysis", "terminology">>>>

_analyze_writing_quality(t) ==
    (IF t.avg_length = "long"
     THEN <<<<"Long", "average", "sentence", "length", "(N", "words)">>>>
     ELSE IF t.avg_length = "short"
     THEN <<<<"Short", "average", "sentence", "length", "(N", "words)">>>>
     ELSE <<>>)
    \o (IF t.passive THEN <<<<"High", "passive", "voice", "usage", "(N)">>>> ELSE <<>>)
    \o (IF t.hedging THEN <<<<"Frequent", "hedging", "language", "detected">>>> ELSE <<>>)
    \o (IF t.jargon THEN <<<<"Academic", "jargon", "may", "affect", "readability">>>>
        ELSE <<>>)

_analyze_limitations(t) ==
    <<IF t.limitations THEN <<"Limitations", "section", "present">>
      ELSE <<"No", "explicit", "limitations", "discussion", "found">>,
      IF t.generalizability THEN <<"Generalizability", "addressed">>
      ELSE <<"Limited", "discussion", "of", "generalizability">>,
      IF t.data THEN <<"Data/code", "availability", "mentioned">>
      ELSE <<"No", "mention", "of", "data", "or", "code", "availability">>,
      IF t.ethics THEN <<"Ethical", "considerations", "addressed">>
      ELSE <<"Limited", "ethical", "considerations", "discussion">>>>

\* The rule table of _generate_suggestions, in its order.
SuggestionRules(t, result) ==
    <<[fires |-> InList(result.methodology, <<"Limited", "methodology", "terminology">>),
       suggestion |-> "Add detailed methodology section with research design"],
      [fires |-> InList(result.methodology, <<"No", "explicit", "sample", "size", "found">>),
       suggestion |-> "Include sample size and participant demographics"],
      [fires |-> InList(result.methodology,
                        <<"Limited", "statistical", "analysis", "terminology">>),
       suggestion |-> "Report statistical tests and effect sizes"],
      [fires |-> AnyContains(result.writing_flags,
                             <<"Long", "average", "sentence", "length">>),
       suggestion |-> "Consider shorter, clearer sentences for better readability"],
      [fires |-> AnyContains(result.writing_flags, <<"High", "passive", "voice">>),
       suggestion |-> "Reduce passive voice for more direct writing"],
      [fires |-> AnyContains(result.writing_flags, <<"Academic", "jargon">>),
       suggestion |-> "Simplify technical language where possible"],
      [fires |-> InList(result.limitations,
                        <<"No", "explicit", "limitations", "discussion", "found">>),
       suggestion |-> "Add dedicated limitations section"],
      [fires |-> InList(result.limitations,
                        <<"Limited", "discussion", "of", "generalizability">>),
       suggestion |-> "Discuss generalizability and external validity"],
      [fires |-> InList(result.limitations,
                        <<"No", "mention", "of", "data", "or", "code", "availability">>),
       suggestion |-> "Consider making data and analysis code available"],
      [fires |-> ~t.novelty,
       suggestion |-> "Clarify the novel contributions of this work"],
      [fires |-> ~t.future_work,
       suggestion |-> "Include discussion of future research directions"]>>

_generate_suggestions(t, result) ==
    LET rules == SuggestionRules(t, result)
        fired == SelectSeq(rules, LAMBDA r : r.fires)
        suggestions == [k \in 1..Len(fired) |-> fired[k].suggestion]
    IN SubSeq(suggestions, 1, Min(Len(suggestions), MAX_SUGGESTIONS))

EmptyCritique ==
    [methodology |-> <<>>, writing_flags |-> <<>>, limitations |-> <<>>,
     suggestions |-> <<>>]

CRIdle ==
    /\ cr_pc = "idle"
    /\ cr_text = [methodology_terms |-> TRUE, sample_size |-> "stated",
                  stats_terms |-> TRUE, avg_length |-> "medium", passive |-> FALSE,
                  hedging |-> FALSE, jargon |-> FALSE, limitations |-> TRUE,
                  generalizability |-> TRUE, data |-> TRUE, ethics |-> TRUE,
                  novelty |-> TRUE, future_work |-> TRUE]
    /\ cr_summary = "summary A"
    /\ critique_result = EmptyCritique

CRInit ==
    /\ cr_pc = "called"
    /\ cr_text \in CritiquedTexts
    /\ cr_summary \in CritiqueSummaries
    /\ critique_result = EmptyCritique

\* critique, lines 145-165: the three analyses.
CR_Analyze ==
    /\ cr_pc = "called"
    /\ critique_result' = [critique_result EXCEPT
                             !.methodology = _analyze_methodology(cr_text),
                             !.writing_flags = _analyze_writing_quality(cr_text),
                             !.limitations = _analyze_limitations(cr_text)]
    /\ cr_pc' = "analyzed"
    /\ UNCHANGED <<cr_text, cr_summary>>
    /\ UNCHANGED nonCrVars

\* critique, lines 167-171: the suggestions.
CR_Suggest ==
    /\ cr_pc = "analyzed"
    /\ critique_result' = [critique_result EXCEPT
                             !.suggestions = _generate_suggestions(cr_text, critique_result)]
    /\ cr_pc' = "done"
    /\ UNCHANGED <<cr_text, cr_summary>>
    /\ UNCHANGED nonCrVars

CRNext == CR_Analyze \/ CR_Suggest

(***************************************************************************)
(* Stepping specification of the analysis endpoints.                       *)
(***************************************************************************)
FCIdle ==
    /\ fc_pc = "idle"
    /\ fc_config = [FACTCHECK_USE |-> "disabled", api_key |-> FALSE, sa_file |-> FALSE]
    /\ fc_claims = <<>>
    /\ fc_i = 0
    /\ fc_attempt = 0
    /\ fc_mode = None
    /\ fc_results = <<>>
    /\ fc_calls = <<>>
    /\ fc_sleeps = <<>>
    /\ fc_replies = NoBody
    /\ fc_errors = NoBody

CVIdle ==
    /\ cv_pc = "idle"
    /\ cv_citations = <<>>
    /\ cv_oracle = <<>>
    /\ cv_i = 0
    /\ cv_validated = <<>>
    /\ cv_lookups = <<>>

Init == PipeInit /\ FCIdle /\ CVIdle /\ VCIdle /\ GSIdle /\ CorpusIdle /\ XCIdle /\ PLIdle /\ SMIdle /\ PRIdle /\ ECIdle /\ CRIdle
Next == PipeNext
Spec == Init /\ [][Next]_vars

(***************************************************************************)
(* Stepping specification of fact_check_claims.                            *)
(***************************************************************************)
InitFactCheck == PipeIdle /\ FCInit /\ CVIdle /\ VCIdle /\ GSIdle /\ CorpusIdle /\ XCIdle /\ PLIdle /\ SMIdle /\ PRIdle /\ ECIdle /\ CRIdle
SpecFactCheck == InitFactCheck /\ [][FCNext]_vars


(***************************************************************************)
(* Stepping specification of citation validation: one call of validate or  *)
(* one call of validate_citations.                                         *)
(***************************************************************************)
InitCitations ==
    /\ PipeIdle /\ FCIdle /\ GSIdle /\ CorpusIdle /\ XCIdle /\ PLIdle /\ SMIdle /\ PRIdle /\ ECIdle /\ CRIdle
    /\ \/ CVInit /\ VCIdle
       \/ CVIdle /\ VCInit
NextCitations ==
    \/ CVNext
    \/ VCNext
SpecCitations == InitCitations /\ [][NextCitations]_vars

(***************************************************************************)
(* Stepping specification of concurrent calls of _get_summarizer.          *)
(***************************************************************************)
InitSummarizer == PipeIdle /\ FCIdle /\ CVIdle /\ VCIdle /\ GSInit /\ CorpusIdle /\ XCIdle /\ PLIdle /\ SMIdle /\ PRIdle /\ ECIdle /\ CRIdle
SpecSummarizer == InitSummarizer /\ [][GSNext]_vars

(***************************************************************************)
(* Stepping specification of add_to_corpus beside a load of the corpus.    *)
(***************************************************************************)
InitCorpus == PipeIdle /\ FCIdle /\ CVIdle /\ VCIdle /\ GSIdle /\ CorpusInit /\ XCIdle /\ PLIdle /\ SMIdle /\ PRIdle /\ ECIdle /\ CRIdle
SpecCorpus == InitCorpus /\ [][CorpusNext]_vars

(***************************************************************************)
(* Stepping specification of the external calls of a request.  The handler *)
(* takes its own steps and a timeout that was set elapses; nothing makes a *)
(* service answer.                                                         *)
(***************************************************************************)
InitExternalCalls == PipeIdle /\ FCIdle /\ CVIdle /\ VCIdle /\ GSIdle /\ CorpusIdle /\ XCInit /\ PLIdle /\ SMIdle /\ PRIdle /\ ECIdle /\ CRIdle
SpecExternalCalls ==
    /\ InitExternalCalls
    /\ [][XCNext]_vars
    /\ WF_vars(XC_Issue)
    /\ WF_vars(XC_Expire)
    /\ WF_vars(XC_Respond)

(***************************************************************************)
(* Stepping specification of a plagiarism check.                           *)
(***************************************************************************)
InitPlagiarism == PipeIdle /\ FCIdle /\ CVIdle /\ VCIdle /\ GSIdle /\ CorpusIdle /\ XCIdle /\ PLInit /\ SMIdle /\ PRIdle /\ ECIdle /\ CRIdle
SpecPlagiarism == InitPlagiarism /\ [][PLNext]_vars

(***************************************************************************)
(* Stepping specification of the matching sources of check_plagiarism.     *)
(***************************************************************************)
InitMatching == PipeIdle /\ FCIdle /\ CVIdle /\ VCIdle /\ GSIdle /\ CorpusIdle /\ XCIdle /\ MatchingInit /\ SMIdle /\ PRIdle /\ ECIdle /\ CRIdle
SpecMatching == InitMatching /\ [][PL_Matching]_vars

(***************************************************************************)
(* Stepping specification of summarize.                                    *)
(***************************************************************************)
InitSummarize == PipeIdle /\ FCIdle /\ CVIdle /\ VCIdle /\ GSIdle /\ CorpusIdle /\ XCIdle /\ PLIdle /\ SMInit /\ PRIdle /\ ECIdle /\ CRIdle
SpecSummarize == InitSummarize /\ [][SMNext]_vars

(***************************************************************************)
(* Stepping specification of _parse_citations.                             *)
(***************************************************************************)
InitParse == PipeIdle /\ FCIdle /\ CVIdle /\ VCIdle /\ GSIdle /\ CorpusIdle /\ XCIdle /\ PLIdle /\ SMIdle /\ PRInit /\ ECIdle /\ CRIdle
SpecParse == InitParse /\ [][PRNext]_vars

(***************************************************************************)
(* Stepping specification of extract_claims.                               *)
(***************************************************************************)
InitExtract == PipeIdle /\ FCIdle /\ CVIdle /\ VCIdle /\ GSIdle /\ CorpusIdle /\ XCIdle /\ PLIdle /\ SMIdle /\ PRIdle /\ ECInit /\ CRIdle
SpecExtract == InitExtract /\ [][ECNext]_vars

(***************************************************************************)
(* Stepping specification of critique.                                     *)
(***************************************************************************)
InitCritique == PipeIdle /\ FCIdle /\ CVIdle /\ VCIdle /\ GSIdle /\ CorpusIdle /\ XCIdle /\ PLIdle /\ SMIdle /\ PRIdle /\ ECIdle /\ CRInit
SpecCritique == InitCritique /\ [][CRNext]_vars

(***************************************************************************)
(* Properties of the analysis endpoints (checked under Spec).              *)
(***************************************************************************)
Accepted == request.upload = "pdf" /\ (endpoint = "simple" \/ request.user_found)
Finished == pc = "done"
Succeeded == Finished /\ response.status = 200
TrimmedLength == request.pdf.pages.body
PassesGate == request.pdf.parsable /\ TrimmedLength >= 100

\* C1: in both endpoints, whichever stages raise, every later stage is still
\* run, and the response fields of the stages that did not raise hold what the
\* stage returned.
C1_StageFailureIsolated ==
    (Finished /\ stagesRun # <<>>) =>
        /\ stagesRun = Stages
        /\ Succeeded =>
            /\ "summarize" \notin failed =>
                  response.body.summary = returned["summarize"]
            /\ ("check_plagiarism" \notin failed /\ endpoint = "simple") =>
                  /\ response.body.plagiarism = returned["check_plagiarism"]
                  /\ response.body.stats.plagiarism_percent = returned["check_plagiarism"]
            /\ ("check_plagiarism" \notin failed /\ endpoint = "protected") =>
                  /\ response.body.plagiarism =
                        returned["check_plagiarism"].plagiarism_score
                  /\ response.body.plagiarism_details =
                        returned["check_plagiarism"].matching_sources
            /\ "validate_citations" \notin failed =>
                  /\ Len(response.body.citations) = Len(returned["validate_citations"])
                  /\ \A i \in 1..Len(response.body.citations) :
                        response.body.citations[i].reference =
                            returned["validate_citations"][i].raw
            /\ "fact_check" \notin failed =>
                  /\ Len(response.body.fact_check.facts) = Len(returned["fact_check"])
                  /\ \A i \in 1..Len(response.body.fact_check.facts) :
                        /\ response.body.fact_check.facts[i].claim =
                              returned["fact_check"][i].claim
                        /\ (response.body.fact_check.facts[i].status = "Verified")
                              <=> (returned["fact_check"][i].status = "verified")

\* Summarization and citation validation raised; plagiarism and fact checking,
\* which come later, ran and their results are in the response.
C1_Witness ==
    /\ Succeeded
    /\ failed = {"summarize", "validate_citations"}
    /\ response.body.plagiarism > 0
    /\ Len(response.body.fact_check.facts) = 2

C3_ShortTextRejectedBeforeStages ==
    (request.pdf.parsable /\ TrimmedLength < 100) =>
        /\ stagesRun = <<>>
        /\ session = EmptySession
        /\ db = EmptySession
        /\ (Finished /\ Accepted) => response.status = 400

\* A 99-character text was extracted and the authenticated endpoint rejected it.
C3_Witness ==
    /\ Finished
    /\ endpoint = "protected"
    /\ Accepted
    /\ request.pdf.parsable
    /\ text.body = 99
    /\ response.status = 400

\* C4 as stated: an accepted upload whose text was extracted and passes the
\* gate always ends with 200, and an accepted upload ends with an error only on
\* extraction failure or at the gate.
C4_AlwaysSuccessAfterGate ==
    (Finished /\ Accepted) => (response.status = 200 <=> PassesGate)

\* C4 amended: analyze_document always ends with 200 after the gate;
\* analyze_and_save ends with 200 after the gate unless a database operation
\* (the flush of the document record or the final commit) raises, and then it
\* rolls back and answers 500.
C4_SuccessUnlessDatabaseFails ==
    (Finished /\ Accepted) =>
        /\ response.status = 200 <=> (PassesGate /\ ~dbError)
        /\ dbError => (endpoint = "protected" /\ PassesGate /\ response.status = 500
                       /\ session = EmptySession /\ db = EmptySession)
        /\ (response.status = 200 /\ endpoint = "protected") =>
              Len(db.documents) = 1 /\ Len(db.analyses) = 1

\* All four stages ran, the commit raised and the answer is 500.
C4_Witness ==
    /\ Finished
    /\ endpoint = "protected"
    /\ stagesRun = Stages
    /\ failed = {}
    /\ dbError
    /\ response.status = 500

\* C5 as stated: every analysis that passes the gate runs the critique stage too
\* and returns a critique report.
C5_CritiqueRunAndReturned ==
    Succeeded =>
        /\ \E i \in 1..Len(stagesRun) : stagesRun[i] = "critique"
        /\ "critique" \in DOMAIN response.body

\* The maximum similarity the plagiarism service found in this request, and
\* what each endpoint reports for a given similarity.
RequestSimilarity ==
    IF endpoint = "simple"
    THEN CHOOSE sim \in Similarities : check(sim) = returned["check_plagiarism"]
    ELSE CHOOSE sim \in Similarities : check_plagiarism(sim) = returned["check_plagiarism"]
SimpleReports(sim) == AD_ResponseBody(None, check(sim), <<>>, <<>>, 0)
ProtectedReports(sim) ==
    AS_ResponseBody(None, None, None, check_plagiarism(sim), <<>>, <<>>, 0)

\* C17: for the same document and corpus the two endpoints report the same
\* value in plagiarism and in plagiarism_percent, a value between 0 and 100.
C17_OneScoreScale ==
    (Succeeded /\ "check_plagiarism" \in DOMAIN returned) =>
        LET sim == RequestSimilarity
        IN /\ SimpleReports(sim).plagiarism = ProtectedReports(sim).plagiarism
           /\ SimpleReports(sim).stats.plagiarism_percent
                  = ProtectedReports(sim).stats.plagiarism_percent
           /\ response.body.plagiarism = response.body.stats.plagiarism_percent
           /\ response.body.plagiarism \in 0..100000

(***************************************************************************)
(* Properties of fact_check_claims (checked under SpecFactCheck).          *)
(***************************************************************************)
FcDone == fc_pc = "done"
CallsFor(i) == SelectSeq(fc_calls, LAMBDA c : c.claim = i)
BackoffsFor(i) == SelectSeq(fc_sleeps, LAMBDA w : w.kind = "backoff" /\ w.claim = i)
Verdicts == {"verified", "contradicted", "no_verdict"}

\* C6: a claim whose first k calls fail (k = 0, 1, 2) and whose call k+1
\* succeeds gets exactly k+1 calls, numbered 1..k+1; the wait after failed
\* attempt i is 0.5 s x i; no wait follows the successful call; the result is a
\* verdict built from the successful response, not api_error.
C6_RetryUntilSuccess ==
    \A i \in DOMAIN fc_replies :
        LET calls == CallsFor(i)
            waits == BackoffsFor(i)
        IN /\ Len(calls) \in 1..3
           /\ \A k \in 1..Len(calls) : calls[k].attempt = k
           /\ Len(waits) = Len(calls) - 1
           /\ \A k \in 1..Len(waits) : waits[k].attempt = k /\ waits[k].ms = 500 * k
           /\ \A k \in 2..Len(waits) : waits[k].ms > waits[k - 1].ms
           /\ fc_results[i].claim = fc_claims[i]
           /\ fc_results[i].status \in Verdicts
           /\ fc_results[i].fact_checks = fc_replies[i].claims
           /\ fc_results[i].error = None

\* A single claim: two failed calls, then a success on the third.
C6_Witness ==
    /\ FcDone
    /\ Len(fc_claims) = 1
    /\ 1 \in DOMAIN fc_replies
    /\ Len(fc_calls) = 3
    /\ Len(fc_sleeps) = 2

\* C7: a claim whose every attempt fails gets exactly MAX_RETRIES = 3 calls
\* and the result api_error with the error message and no evidence; every
\* other claim of the batch still gets its own result, in order.
C7_ExhaustedRetriesIsolated ==
    /\ \A i \in DOMAIN fc_errors :
          /\ Len(CallsFor(i)) = 3
          /\ Len(BackoffsFor(i)) = 2
          /\ fc_results[i] = FcResult(fc_claims[i], "api_error", <<>>, fc_errors[i])
    /\ (FcDone /\ fc_mode # None) =>
          /\ Len(fc_results) = Len(fc_claims)
          /\ \A j \in 1..Len(fc_claims) :
                /\ fc_results[j].claim = fc_claims[j]
                /\ j \in DOMAIN fc_replies =>
                      /\ fc_results[j].status \in Verdicts
                      /\ fc_results[j].fact_checks = fc_replies[j].claims
                /\ (j \notin DOMAIN fc_replies /\ j \notin DOMAIN fc_errors) =>
                      fc_results[j].status = "not_configured"

\* The first claim failed three times; the second was still called and got a
\* verdict from its own response.
C7_Witness ==
    /\ FcDone
    /\ Len(fc_claims) = 2
    /\ 1 \in DOMAIN fc_errors
    /\ 2 \in DOMAIN fc_replies
    /\ fc_replies[2].claims # <<>>

Disabled == fc_config.FACTCHECK_USE = "disabled"
Unconfigured == ~use_service_account(fc_config) /\ ~use_api_key(fc_config)

TrueRatings == {"True", "Mostly True"}
FalseRatings == {"False", "Mostly False"}
RatingVerdict(ratings) ==
    IF \E k \in 1..Len(ratings) : ratings[k] \in TrueRatings THEN "verified"
    ELSE IF \E k \in 1..Len(ratings) : ratings[k] \in FalseRatings THEN "contradicted"
    ELSE "no_verdict"

\* C9 as stated: after a successful call the status is verified when a review
\* rating has a true term, contradicted when one has a false term, and
\* no_verdict otherwise or when there is no review.
C9_VerdictFromRatings ==
    \A i \in DOMAIN fc_replies :
        fc_results[i].status = RatingVerdict(ReviewRatings(fc_replies[i].claims))

(***************************************************************************)
(* Properties of validate (checked under SpecCitations).                   *)
(***************************************************************************)
CvDone == cv_pc = "done"
LongEnough == SelectSeq(cv_citations, LAMBDA c : c.marker + c.rest >= 10)
OutcomeStatus(outcome) ==
    CASE outcome = "match" -> "Valid"
      [] outcome = "no_match" -> "Not Found"
      [] outcome = "timeout" -> "API Timeout"
      [] OTHER -> "Error"

\* C10 as stated: validate returns one record for every extracted citation of
\* at least 10 characters, in extraction order, and the status of each record
\* is decided by the outcome of its own lookup alone.
C10_StatusFromOwnLookup ==
    CvDone =>
        /\ Len(cv_validated) = Len(LongEnough)
        /\ \A k \in 1..Len(cv_validated) :
              /\ cv_validated[k].raw = LongEnough[k]
              /\ cv_validated[k].status = OutcomeStatus(cv_oracle[LongEnough[k].id])

\* C10 amended: one record for each of the first 50 extracted citations of at
\* least 10 characters, in extraction order; a citation whose cleaned title
\* has fewer than 5 characters gets Error and no lookup is made for it; every
\* other status is decided by the outcome of the citation's own lookup alone.
C10_StatusFromOwnLookupOrShortTitle ==
    CvDone =>
        /\ Len(cv_validated) = Len(LongEnough)
        /\ \A k \in 1..Len(cv_validated) :
              LET c == LongEnough[k]
                  asked == SelectSeq(cv_lookups, LAMBDA q : q.citation = c.id)
              IN /\ cv_validated[k].raw = c
                 /\ IF cv_validated[k].cleaned_title < 5
                    THEN cv_validated[k].status = "Error" /\ asked = <<>>
                    ELSE /\ cv_validated[k].status = OutcomeStatus(cv_oracle[c.id])
                         /\ Len(asked) = 1
        /\ \A q \in 1..Len(cv_lookups) :
              \E k \in 1..Len(cv_validated) : cv_validated[k].raw.id = cv_lookups[q].citation

\* The lookup of the first citation timed out; the second was still looked up
\* and found.
C10_Witness ==
    /\ CvDone
    /\ Len(cv_validated) = 2
    /\ cv_validated[1].status = "API Timeout"
    /\ cv_validated[2].status = "Valid"
    /\ Len(cv_lookups) = 2

\* The queries made for one citation, in the order they were made.
ValidateQueries(id) == SelectSeq(cv_lookups, LAMBDA q : q.citation = id)
LegacyLookups(c) == SelectSeq(vc_lookups, LAMBDA q : q.citation = c)
VcDone == vc_pc = "done"
IsCascadePrefix(qs) ==
    /\ Len(qs) <= 3
    /\ \A k \in 1..Len(qs) : qs[k].query = <<"raw", "cleaned_title", "keywords">>[k]

C12_ConstructedAtMostOnce ==
    /\ pipelines <= 1
    /\ \A t, u \in Threads :
          (gs_pc[t] = "done" /\ gs_pc[u] = "done") => gs_returned[t] = gs_returned[u]

(***************************************************************************)
(* Properties of the corpus directory (checked under SpecCorpus).          *)
(***************************************************************************)
\* C13: a load that runs beside add_to_corpus reads every entry either as it
\* was before the call or fully written, never empty or partly written, and
\* every entry that existed before the call is among the loaded texts.
C13_LoadSeesWholeEntries ==
    /\ \A k \in 1..Len(ld_reads) :
          LET r == ld_reads[k]
          IN \/ r.file \in DOMAIN corpus_before /\ r.content = corpus_before[r.file]
             \/ r.content = NewText
    /\ ld_pc = "done" =>
          \A f \in DOMAIN corpus_before :
              \E k \in 1..Len(corpus_texts) : corpus_texts[k].file = f

(***************************************************************************)
(* Properties of the external calls (checked under SpecExternalCalls).     *)
(***************************************************************************)
\* C14: every external call has a timeout, so a request whose external
\* services never answer still returns a response in the end.
C14_RequestEventuallyReturns == <>(xc_pc = "responded")

(***************************************************************************)
(* Properties of the plagiarism check (checked under SpecPlagiarism).      *)
(***************************************************************************)
PlDone == pl_pc = "done"
Added == pl_added # NoBody /\ pl_added.returned

\* C15: whatever the corpus was, once add_to_corpus(text, filename) has
\* returned True for a text of more than 100 characters, a check of the same
\* text scores at least 0.9 (90 as a percentage) and check_plagiarism lists
\* the added file among its matching sources.
C15_AddedTextScoresHigh ==
    (PlDone /\ Added /\ pl_text.chars > 100) =>
        /\ pl_score >= 90000
        /\ pl_result.plagiarism_score >= 900
        /\ \E k \in 1..Len(pl_result.matching_sources) :
              pl_result.matching_sources[k].file = safe_filename(pl_added.filename)

\* C16: when the corpus holds an entry of which the document is a verbatim
\* copy, the document scores strictly higher than any document that shares no
\* term with any corpus entry, with check and with check_plagiarism.
C16_CopyScoresAboveUnrelated ==
    LET loaded == _load_corpus_with_filenames(pl_dir)
        IsCopy == \E k \in 1..Len(loaded) : loaded[k].content = pl_text
        Unrelated == {d \in CheckedTexts :
                         /\ d.terms # {}
                         /\ \A k \in 1..Len(loaded) : d.terms \cap loaded[k].content.terms = {}}
    IN (PlDone /\ IsCopy) =>
           \A d2 \in Unrelated :
               /\ pl_score > check_text(d2, pl_dir)
               /\ pl_result.plagiarism_score > check_plagiarism_text(d2, pl_dir).plagiarism_score

(***************************************************************************)
(* Properties of the matching sources (checked under SpecMatching).        *)
(***************************************************************************)
\* The index in the corpus of a listed file, and the entries above 0.1.
SourceIndex(file) == CHOOSE i \in 1..Len(pl_dir) : pl_dir[i].file = file
Candidates == {i \in 1..Len(similarity_scores) : similarity_scores[i] > 1000}

\* C18 as stated: matching_sources holds the 10 corpus entries of highest
\* similarity among those above 0.1, so no omitted entry has a similarity
\* above that of a listed one.
C18_TopTenBySimilarity ==
    PlDone =>
        LET ms == pl_result.matching_sources
            listed == {SourceIndex(ms[k].file) : k \in 1..Len(ms)}
        IN /\ Len(ms) = Min(10, Cardinality(Candidates))
           /\ listed \subseteq Candidates
           /\ \A i \in Candidates \ listed : \A j \in listed :
                 similarity_scores[i] <= similarity_scores[j]

\* C18: matching_sources has at most 10 entries, in non-increasing order of
\* score; its entries are corpus entries of similarity above 0.1, and they are
\* the 10 best of those by reported score, the score rounded to 3 decimals
\* (all of them when there are fewer);
\* plagiarism_score is the rounded maximum similarity and is at least every
\* listed score; the list is non-empty exactly when the maximum exceeds 0.1;
\* without any corpus entry the result is score 0.0 and no match.
C18_TopTenSortedMatches ==
    PlDone =>
        LET ms == pl_result.matching_sources
            listed == {SourceIndex(ms[k].file) : k \in 1..Len(ms)}
        IN /\ Len(ms) <= 10
           /\ \A k \in 1..(Len(ms) - 1) : ms[k].score >= ms[k + 1].score
           /\ Cardinality(listed) = Len(ms)
           /\ listed \subseteq Candidates
           /\ \A k \in 1..Len(ms) : ms[k].score = Round3(similarity_scores[SourceIndex(ms[k].file)])
           /\ Len(ms) = Min(10, Cardinality(Candidates))
           /\ \A i \in Candidates \ listed : \A k \in 1..Len(ms) :
                 Round3(similarity_scores[i]) <= ms[k].score
           /\ \A i \in 1..Len(similarity_scores) :
                 pl_result.plagiarism_score >= Round3(similarity_scores[i])
           /\ similarity_scores # <<>> =>
                 \E i \in 1..Len(similarity_scores) :
                     pl_result.plagiarism_score = Round3(similarity_scores[i])
           /\ \A k \in 1..Len(ms) : pl_result.plagiarism_score >= ms[k].score
           /\ ms # <<>> <=> (\E i \in 1..Len(similarity_scores) : similarity_scores[i] > 1000)
           /\ similarity_scores = <<>> =>
                 pl_result = [plagiarism_score |-> 0, matching_sources |-> <<>>]

\* Eleven corpus entries above 0.1, the best of them last: ten are listed and
\* the last one is listed first.
C18_Witness ==
    /\ PlDone
    /\ Len(similarity_scores) = 11
    /\ \A i \in 1..10 : similarity_scores[i] = 5001
    /\ similarity_scores[11] = 5006
    /\ Len(pl_result.matching_sources) = 10
    /\ pl_result.matching_sources[1].file = CorpusFile(11)

(***************************************************************************)
(* Properties of summarize (checked under SpecSummarize).                  *)
(***************************************************************************)
SmDone == sm_pc = "done"
LongEnoughText == StrippedLength(sm_text.parts) >= 100

\* C19: a text of trimmed length 100 or more gets a non-empty summary from
\* whichever strategy ran; a shorter one gets the too-short message and no
\* strategy is called; the threshold is that of the extraction gate.
C19_NonEmptySummary ==
    /\ SUMMARY_MIN_LEN = MIN_TEXT_LEN
    /\ SmDone =>
          IF LongEnoughText
          THEN /\ sm_calls # <<>>
               /\ JoinLength(sm_summary.sentences) > 0
          ELSE /\ sm_summary = TooShortMessage
               /\ sm_calls = <<>>

(***************************************************************************)
(* Properties of the citation extraction (checked under SpecParse).        *)
(***************************************************************************)
PrDone == pr_pc = "done"
IsNumbered(line) == line.head \in NumberedHeads
IsContinuation(line) == line # BlankLine /\ line.head \notin StartHeads

\* The region of the claim: after the header, entries that begin with a
\* numbered line, go on with lines matching no start pattern and end with
\* one blank line.
WellFormedRegion ==
    /\ Len(pr_lines) >= 1
    /\ \A i \in 2..Len(pr_lines) :
          /\ pr_lines[i] = BlankLine \/ IsNumbered(pr_lines[i]) \/ IsContinuation(pr_lines[i])
          /\ IsNumbered(pr_lines[i]) <=> (i = 2 \/ pr_lines[i - 1] = BlankLine)
    /\ Len(pr_lines) > 1 => pr_lines[Len(pr_lines)] = BlankLine
EntryStarts == {i \in 2..Len(pr_lines) : IsNumbered(pr_lines[i])}
EntryLines(start) ==
    LET end == CHOOSE j \in (start + 1)..Len(pr_lines) :
                   /\ pr_lines[j] = BlankLine
                   /\ \A m \in start..(j - 1) : pr_lines[m] # BlankLine
    IN [m \in 1..(end - start) |-> start + m - 1]
NthEntry(k) ==
    EntryLines(CHOOSE i \in EntryStarts :
                   Cardinality({j \in EntryStarts : j < i}) = k - 1)
RecordsAreEntries ==
    /\ Len(pr_records) = Cardinality(EntryStarts)
    /\ \A k \in 1..Len(pr_records) : pr_records[k] = NthEntry(k)

\* C20 as stated: a well-formed region of n <= 50 entries gives exactly n
\* records, in order, each the lines of its entry.
C20_OneRecordPerEntry ==
    PrDone /\ WellFormedRegion /\ Cardinality(EntryStarts) <= 50 => RecordsAreEntries

\* What the loop does with a blank line and with a line matching a start
\* pattern: the current citation, if any, is closed; the start line opens
\* the next one.
LoopTurn == pr_pc = "loop" /\ pr_i <= Len(pr_lines) /\ pr_i' = pr_i + 1
Closed ==
    IF current_citation # <<>>
    THEN pr_citations' = Append(pr_citations, current_citation)
    ELSE pr_citations' = pr_citations
BlankClosesStartOpens ==
    /\ LoopTurn /\ pr_lines[pr_i] = BlankLine => Closed /\ current_citation' = <<>>
    /\ LoopTurn /\ pr_lines[pr_i].head \in StartHeads => Closed /\ current_citation' = <<pr_i>>

\* C20: a well-formed region of n <= 50 entries, each of at least 10
\* characters once its lines are joined, gives exactly n records, in order,
\* each the lines of its entry; and in every region a blank line closes the
\* current citation and a line matching a start pattern opens a new one.
C20_OneRecordPerLongEntry ==
    /\ [](PrDone /\ WellFormedRegion /\ Cardinality(EntryStarts) <= 50
             /\ (\A i \in EntryStarts :
                    CitationChars(pr_lines, EntryLines(i)) >= 10)
          => RecordsAreEntries)
    /\ [][BlankClosesStartOpens]_vars

\* Two entries, the first of two lines, each closed by its blank line.
C20_Witness ==
    /\ PrDone
    /\ pr_lines = <<HeaderLine, Line("[N]", 30), Line("other", 12), BlankLine,
                    Line("(N)", 30), BlankLine>>
    /\ pr_records = <<<<2, 3>>, <<5>>>>

\* C21 as stated: _parse_citations returns at most 50 citations and validate
\* at most 50 records.
C21_ParseReturnsAtMostFifty ==
    PrDone => Len(pr_citations) <= 50 /\ Len(pr_records) <= 50

\* C21: _parse_citations returns at most 51 citations, in document order;
\* validate returns at most 50 records, and they are the citations of at
\* least 10 characters among the first 50, in document order.
C21_AtMostFiftyRecords ==
    PrDone =>
        LET first == 1..Min(50, Len(pr_citations))
        IN /\ Len(pr_citations) <= 51
           /\ \A j \in 1..(Len(pr_citations) - 1) :
                 pr_citations[j][1] < pr_citations[j + 1][1]
           /\ Len(pr_records) <= 50
           /\ \A k \in 1..Len(pr_records) : \E j \in first : pr_records[k] = pr_citations[j]
           /\ \A k \in 1..(Len(pr_records) - 1) : pr_records[k][1] < pr_records[k + 1][1]
           /\ \A j \in first :
                 CitationChars(pr_lines, pr_citations[j]) >= 10
                 => \E k \in 1..Len(pr_records) : pr_records[k] = pr_citations[j]

\* Fifty-one entries without blank lines: the parse returns 51 citations and
\* validate keeps the first 50.
C21_Witness ==
    /\ PrDone
    /\ Len(pr_citations) = 51
    /\ Len(pr_records) = 50
    /\ pr_records[50] = pr_citations[50]

(***************************************************************************)
(* Properties of extract_claims (checked under SpecExtract).               *)
(***************************************************************************)
EcDone == ec_pc = "done" /\ ec_text # <<>>
Returned(i) == \E k \in 1..Len(ec_returned) : ec_returned[k] = i

\* The exclusion patterns of the claim: questions, headers and lines in
\* capitals, sentences beginning with a figure, table or reference marker,
\* sentences with a bracketed citation marker.
ExclusionPattern(sentence) ==
    \/ sentence.question
    \/ sentence.capitals
    \/ sentence.start \in SkippedStarts
    \/ sentence.brackets

\* C22: a sentence is kept exactly when its trimmed length is at least 40
\* and it matches no exclusion pattern (texts of at most 20 sentences, so
\* that the cap does not interfere).
C22_KeptIffLongAndNotExcluded ==
    EcDone /\ Len(ec_text) <= 20 =>
        \A i \in 1..Len(ec_text) :
            Returned(i) <=> (ec_text[i].chars >= 40 /\ ~ExclusionPattern(ec_text[i]))

\* C23: at most 20 claims are returned, and they are the first 20 of the
\* sentences that pass the filter, in the order of the text; an empty text
\* and a failing tokenizer give the empty list.
C23_FirstTwentyInOrder ==
    /\ ec_pc = "done" /\ ec_text # <<>> =>
          /\ Len(ec_returned) <= 20
          /\ Len(ec_returned) = Min(20, Len(ec_claims))
          /\ \A k \in 1..Len(ec_returned) : ec_returned[k] = ec_claims[k]
          /\ \A k \in 1..(Len(ec_claims) - 1) : ec_claims[k] < ec_claims[k + 1]
          /\ \A i \in 1..Len(ec_text) :
                (\E k \in 1..Len(ec_claims) : ec_claims[k] = i)
                <=> (ec_text[i].chars > 40 /\ ~_is_likely_non_claim(ec_text[i]))
          /\ \A i \in 1..Len(ec_text) : \A k \in 1..Len(ec_returned) :
                (\E m \in 1..Len(ec_claims) : ec_claims[m] = i) /\ i < ec_returned[k]
                => Returned(i)
    /\ ec_pc \in {"done", "failed"} /\ (ec_text = <<>> \/ ec_tokenizer = "raises") =>
          ec_returned = <<>>

\* Forty-four sentences, every second one a question: 22 pass the filter and
\* the first 20 of them are returned, the last being sentence 40.
C23_Witness ==
    /\ ec_pc = "done"
    /\ Len(ec_text) = 44
    /\ Len(ec_claims) = 22
    /\ Len(ec_returned) = 20
    /\ ec_returned[1] = 2
    /\ ec_returned[20] = 40

(***************************************************************************)
(* Further properties of fact_check_claims (checked under SpecFactCheck).  *)
(***************************************************************************)
FcLoopEntered == fc_mode # None

\* C24: one result per claim, in the order of the claims, each carrying the
\* text of its claim unchanged, whatever the mode and the outcomes.
C24_OneResultPerClaim ==
    FcDone =>
        /\ Len(fc_results) = Len(fc_claims)
        /\ \A i \in 1..Len(fc_claims) : fc_results[i].claim = fc_claims[i]

\* Two different claims sent to the API: the first ends with api_error, the
\* second is skipped, and each result carries its own claim.
C24_Witness ==
    /\ FcDone
    /\ Len(fc_claims) = 2
    /\ fc_claims[1] # fc_claims[2]
    /\ fc_results[1].status = "api_error"
    /\ fc_results[2].status = "not_configured"
    /\ fc_results[2].claim = fc_claims[2]

\* The delays taken between claims, in the order taken.
DelaysBetween == SelectSeq(fc_sleeps, LAMBDA sl : sl.kind = "between")

\* C25: the k-th delay between claims is the one before claim k+1 and lasts
\* DELAY_BETWEEN_CALLS, so there is none before the first claim; it is
\* taken only once claim k has its result; no call for a claim after the
\* first is made before its delay or before the result of the claim before
\* it; and n claims sent to the API take n-1 delays, whatever their outcomes.
C25_DelayBetweenClaims ==
    /\ \A k \in 1..Len(DelaysBetween) :
          /\ DelaysBetween[k].claim = k + 1
          /\ DelaysBetween[k].ms = 500
          /\ Len(fc_results) >= k
    /\ \A c \in 1..Len(fc_calls) :
          /\ Len(fc_results) >= fc_calls[c].claim - 1
          /\ Len(DelaysBetween) >= fc_calls[c].claim - 1
    /\ FcDone /\ FcLoopEntered => Len(DelaysBetween) = Len(fc_claims) - 1
    /\ FcDone /\ ~FcLoopEntered => DelaysBetween = <<>>

\* A batch of MaxClaims claims, the first skipped: every later claim had its
\* delay.
C25_Witness ==
    /\ FcDone /\ FcLoopEntered
    /\ Len(fc_claims) = MaxClaims
    /\ fc_results[1].status = "not_configured"
    /\ fc_results[2].status = "api_error"
    /\ Len(DelaysBetween) = MaxClaims - 1

\* The claims of which nothing is left after cleaning: only whitespace,
\* control, quote and bracket characters.
EmptyAfterCleaning(claim) ==
    \A k \in 1..Len(claim) : claim[k] \in Whitespace \cup ControlChars \cup QuoteChars
Called(i) == \E c \in 1..Len(fc_calls) : fc_calls[c].claim = i

ScorableSentences ==
    SelectSeq(_split_into_sentences(sm_text), LAMBDA sentence : sentence.words >= 5)

\* C27: the heuristic summary has at most 7 sentences, at least 3 when the
\* text has 3 scorable sentences or more, no sentence twice, and its
\* sentences are in the order of the text.
C27_ThreeToSevenOnceEach ==
    SmDone /\ sm_summary.by = "heuristic" =>
        LET chosen == sm_summary.sentences
            sentences == _split_into_sentences(sm_text)
        IN /\ Len(chosen) <= 7
           /\ Len(ScorableSentences) >= 3 => Len(chosen) >= 3
           /\ \A j, k \in 1..Len(chosen) : j # k => chosen[j] # chosen[k]
           /\ \E pos \in [1..Len(chosen) -> 1..Len(sentences)] :
                 /\ \A k \in 1..Len(chosen) : sentences[pos[k]] = chosen[k]
                 /\ \A k \in 1..(Len(chosen) - 1) : pos[k] < pos[k + 1]

(***************************************************************************)
(* Properties of critique (checked under SpecCritique).                    *)
(***************************************************************************)
CrDone == cr_pc = "done"
Suggested(suggestion) == InList(critique_result.suggestions, suggestion)
RuleOrder ==
    <<"Add detailed methodology section with research design",
      "Include sample size and participant demographics",
      "Report statistical tests and effect sizes",
      "Consider shorter, clearer sentences for better readability",
      "Reduce passive voice for more direct writing",
      "Simplify technical language where possible",
      "Add dedicated limitations section",
      "Discuss generalizability and external validity",
      "Consider making data and analysis code available",
      "Clarify the novel contributions of this work",
      "Include discussion of future research directions">>

RuleIndex(suggestion) == CHOOSE i \in 1..Len(RuleOrder) : RuleOrder[i] = suggestion

\* C28: at most 8 suggestions, in the order of the rule table; the
\* methodology suggestion is made when no methodology terminology was
\* detected and the limitations suggestion when no limitations discussion
\* was found.
C28_RulesFireOnFindings ==
    CrDone =>
        LET suggestions == critique_result.suggestions
        IN /\ Len(suggestions) <= 8
           /\ \A k \in 1..Len(suggestions) : InList(RuleOrder, suggestions[k])
           /\ \A k \in 1..(Len(suggestions) - 1) :
                 RuleIndex(suggestions[k]) < RuleIndex(suggestions[k + 1])
           /\ ~cr_text.methodology_terms
              <=> Suggested("Add detailed methodology section with research design")
           /\ ~cr_text.limitations <=> Suggested("Add dedicated limitations section")

(***************************************************************************)
(* Further properties of the analysis endpoints (checked under Spec).      *)
(***************************************************************************)
\* C29: in the response of both endpoints a citation is valid exactly when
\* validate gave it the status Valid, and the citation record persisted by
\* analyze_and_save is verified exactly in that case.
C29_ValidIffStatusValid ==
    (Succeeded /\ "validate_citations" \in DOMAIN returned
        /\ "validate_citations" \notin failed) =>
        /\ Len(response.body.citations) = Len(citation_results)
        /\ \A i \in 1..Len(citation_results) :
              response.body.citations[i].valid <=> citation_results[i].status = "Valid"
        /\ endpoint = "protected" =>
              /\ Len(db.citations) = Len(citation_results)
              /\ \A i \in 1..Len(citation_results) :
                    db.citations[i].status = "verified"
                    <=> citation_results[i].status = "Valid"

\* validate_citations_endpoint and run_factcheck, given a document_id, call
\* extract_text_and_meta(document.stored_path); fitz.open raises for a path
\* with no file behind it and both endpoints answer 500.
ReExtractFails(document) ==
    document.stored_path = "temp_path" /\ ~temp_exists

\* The upload of analyze_and_save answered 200 and its document is committed.
UploadCommitted ==
    /\ endpoint = "protected" /\ pc = "done"
    /\ response.status = 200
    /\ Len(db.documents) = 1

\* C30: after a committed authenticated upload the file at the stored_path of
\* the document record still exists, so a later request naming the document
\* can extract its text again.
C30_StoredFileKept ==
    UploadCommitted => ~ReExtractFails(db.documents[1])

====
